---------------------------- MODULE Spec2Model ----------------------------
(***************************************************************************)
(* Reversible PII masking (privacy_filter): entity deduplication, token    *)
(* generation, back-to-front splicing, demasking, the in-process session   *)
(* map of PrivacyFilter, the NATS JetStream KV session store and the       *)
(* FastAPI handlers that combine the two.                                  *)
(*                                                                         *)
(* Text is a sequence of one-character strings.  A Python dict is a        *)
(* sequence of [token, value] records in insertion order.  Scores are      *)
(* confidences in percent.  Time is counted in ticks.                      *)
(***************************************************************************)
EXTENDS Integers, Sequences, FiniteSets, TLC

VARIABLES
    text,        \* mask(): the input text
    cands,       \* the detectors' candidate list handed to _deduplicate_entities
    pc,          \* position in the mask -> demask round trip
    mres,        \* the MaskingResult of the last mask() call, or None
    dres,        \* the DemaskingResult of the last demask() call, or None
    sessions,    \* PrivacyFilter.sessions: session_id -> token_map
    created_at,  \* time at which each entry of sessions was written
    kv,          \* the JetStream KV bucket: key -> [value, ts]
    last_store,  \* per session id: the map and time of the last store_session, until deleted
    now,         \* the clock
    cfg,         \* store and encryption configuration
    ret,         \* the completed call: operation, arguments, returned value
    encrypted,   \* the Fernet token the last encrypt() returned, if any
    _store,      \* nats_store._store: the NATSSessionStore singleton, its _nc and _kv
    _fernet_cache, \* KDFEncryption._fernet_cache: cache keys in insertion order
    proc         \* the concurrent callers: each one's position and local variables

vars == <<text, cands, pc, mres, dres, sessions, created_at, kv, last_store, now, cfg, ret,
         encrypted, _store, _fernet_cache, proc>>

\* Python's None where a string is expected (a session id)
None == "None"

\* Optional[list] and Optional[dict]: None, or the list or dict x
NoneValue == [none |-> TRUE, v |-> <<>>]
Some(x) == [none |-> FALSE, v |-> x]

\* the module global _store before the first get_nats_store(), and no concurrent
\* callers
NoStore == [created |-> FALSE, _nc |-> FALSE, _kv |-> FALSE]
NoProcs == <<>>

(***************************************************************************)
(* Bounds of the model.                                                    *)
(***************************************************************************)
MaxLen == 2          \* longest input text
MaxCands == 3        \* longest candidate list
TtlTicks == 2        \* session lifetime (ttl_seconds) in ticks
RotationTicks == 3   \* key rotation period in ticks
MaxTime == 3         \* the clock stops here
Alphabet == {"a", " "}
Scores == {60, 95}   \* a GLiNER score above the 0.5 threshold; the regex score

(***************************************************************************)
(* Entity types are open strings.  OTHER_TYPE is chosen so that its name   *)
(* extends EMAIL_ADDRESS by the separator and a digit.                     *)
(***************************************************************************)
EMAIL_ADDRESS == <<"E">>
OTHER_TYPE == <<"E", "_", "1">>
TypeNames == {EMAIL_ADDRESS, OTHER_TYPE}

(***************************************************************************)
(* Python string primitives.                                               *)
(***************************************************************************)
Min(a, b) == IF a < b THEN a ELSE b

\* s[i:j] for 0 <= i, 0 <= j: both ends saturate at len(s)
Slice(s, i, j) == SubSeq(s, Min(i, Len(s)) + 1, Min(j, Len(s)))

\* sub in s
Contains(s, sub) ==
    \E i \in 0..(Len(s) - Len(sub)) : SubSeq(s, i + 1, i + Len(sub)) = sub

\* mutant of Replace: only the first occurrence is replaced
ReplaceFirst(s, old, new) ==
    IF ~Contains(s, old) \/ old = <<>> THEN s
    ELSE LET i == CHOOSE i \in 0..(Len(s) - Len(old)) :
                     /\ SubSeq(s, i + 1, i + Len(old)) = old
                     /\ \A j \in 0..(i - 1) : SubSeq(s, j + 1, j + Len(old)) # old
         IN  SubSeq(s, 1, i) \o new \o SubSeq(s, i + Len(old) + 1, Len(s))

\* s.replace(old, new): every non-overlapping occurrence, left to right
RECURSIVE Replace(_, _, _)
Replace(s, old, new) ==
    IF Len(s) < Len(old) \/ old = <<>> THEN s
    ELSE IF SubSeq(s, 1, Len(old)) = old
         THEN new \o Replace(SubSeq(s, Len(old) + 1, Len(s)), old, new)
         ELSE <<s[1]>> \o Replace(Tail(s), old, new)

DigitChars == <<"0", "1", "2", "3", "4", "5", "6", "7", "8", "9">>

\* str(n) for n >= 0
RECURSIVE IntToStr(_)
IntToStr(n) ==
    IF n < 10 THEN <<DigitChars[n + 1]>>
    ELSE IntToStr(n \div 10) \o <<DigitChars[(n % 10) + 1]>>

\* sorted(s, key) and list.sort(key): stable; key[i] is the pair s[i] sorts by
StableSort(s, key) ==
    LET less(i, j) == key[i][1] < key[j][1] \/ (key[i][1] = key[j][1] /\ key[i][2] < key[j][2])
        rank(i) == Cardinality({j \in 1..Len(s) : less(j, i) \/ (~less(i, j) /\ j < i)})
    IN  [k \in 1..Len(s) |-> s[CHOOSE i \in 1..Len(s) : rank(i) = k - 1]]

(***************************************************************************)
(* Python dict, in insertion order.                                        *)
(***************************************************************************)
DictHas(d, k) == \E i \in 1..Len(d) : d[i].token = k

\* d.get(k, default)
DictGet(d, k, default) ==
    IF DictHas(d, k) THEN d[CHOOSE i \in 1..Len(d) : d[i].token = k].value
    ELSE default

\* d[k] = v
DictPut(d, k, v) ==
    IF DictHas(d, k)
    THEN [i \in 1..Len(d) |-> IF d[i].token = k THEN [token |-> k, value |-> v] ELSE d[i]]
    ELSE Append(d, [token |-> k, value |-> v])

(***************************************************************************)
(* GLiNERPresidioEngine._deduplicate_entities                              *)
(***************************************************************************)
\* the overlap test of the list comprehension: e against the current entity
Overlaps(e, entity) ==
    \/ (e.start <= entity.start /\ entity.start < e.end)
    \/ (entity.start <= e.start /\ e.start < entity.end)

\* a max that returns the last of the highest score
MaxByScoreLast(overlapping) ==
    overlapping[CHOOSE i \in 1..Len(overlapping) :
        \A j \in 1..Len(overlapping) :
            \/ overlapping[j].score < overlapping[i].score
            \/ (overlapping[j].score = overlapping[i].score /\ j <= i)]

\* max(overlapping, key=score): the first of the highest score
MaxByScore(overlapping) ==
    overlapping[CHOOSE i \in 1..Len(overlapping) :
        \A j \in 1..Len(overlapping) :
            \/ overlapping[j].score < overlapping[i].score
            \/ (overlapping[j].score = overlapping[i].score /\ i <= j)]

\* the for loop, from entity i on
RECURSIVE DedupWalk(_, _, _, _)
DedupWalk(entities, i, deduplicated, skip_until) ==
    IF i > Len(entities) THEN deduplicated
    ELSE LET entity == entities[i]
             overlapping == SelectSeq(entities, LAMBDA e : Overlaps(e, entity))
         IN  IF entity.start < skip_until
             THEN DedupWalk(entities, i + 1, deduplicated, skip_until)
             ELSE IF overlapping # <<>>
             THEN LET best == MaxByScore(overlapping)
                  IN  IF \A k \in 1..Len(deduplicated) : deduplicated[k] # best
                      THEN DedupWalk(entities, i + 1, Append(deduplicated, best), best.end)
                      ELSE DedupWalk(entities, i + 1, deduplicated, skip_until)
             ELSE DedupWalk(entities, i + 1, Append(deduplicated, entity), entity.end)

\* sorted(entities, key=lambda e: (e.start, e.end)), then the walk
_deduplicate_entities(entities) ==
    IF entities = <<>> THEN <<>>
    ELSE DedupWalk(StableSort(entities, [i \in 1..Len(entities) |->
                                  <<entities[i].start, entities[i].end>>]), 1, <<>>, -1)

(***************************************************************************)
(* GLiNERPresidioEngine.analyze: presidio_entities is the GLiNER output    *)
(* followed by the regex matches, both produced by external detectors.     *)
(***************************************************************************)
analyze(t, presidio_entities) ==
    IF t = <<>> \/ (\A i \in 1..Len(t) : t[i] = " ") THEN <<>>
    ELSE _deduplicate_entities(presidio_entities)

(***************************************************************************)
(* PrivacyFilter._generate_token, mask, demask, clear_session              *)
(***************************************************************************)
\* mutant of _generate_token: the index is left out of the token
GenerateTokenNoIndex(entity_type, index) ==
    <<"<">> \o entity_type \o <<">">>

_generate_token(entity_type, index) ==
    <<"<">> \o entity_type \o <<"_">> \o IntToStr(index) \o <<">">>

\* the replacement loop of mask(), from entity i on; st holds the loop's locals
RECURSIVE MaskLoop(_, _, _)
MaskLoop(detected_entities, i, st) ==
    IF i > Len(detected_entities) THEN st
    ELSE LET entity == detected_entities[i]
             entity_type == entity.entity_type
             entity_counts == [st.entity_counts EXCEPT ![entity_type] = @ + 1]
             masked_token == _generate_token(entity_type, entity_counts[entity_type])
         IN  MaskLoop(detected_entities, i + 1,
                 [token_map |-> DictPut(st.token_map, masked_token, entity.text),
                  masked_text |-> Slice(st.masked_text, 0, entity.start) \o masked_token
                                    \o Slice(st.masked_text, entity.end, Len(st.masked_text)),
                  entity_counts |-> entity_counts])

\* a mask that replaces the entities front to back
MaskFrontToBack(t, detected, entities_to_mask, session_id) ==
    LET filtered == IF ~entities_to_mask.none /\ entities_to_mask.v # <<>>
                    THEN SelectSeq(detected, LAMBDA e :
                             \E k \in 1..Len(entities_to_mask.v) :
                                 entities_to_mask.v[k] = e.entity_type)
                    ELSE detected
        detected_entities == StableSort(filtered, [i \in 1..Len(filtered) |->
                                                   <<filtered[i].start, 0>>])
        st == MaskLoop(detected_entities, 1,
                  [token_map |-> <<>>, masked_text |-> t,
                   entity_counts |-> [ty \in TypeNames |-> 0]])
    IN  [masked_text |-> st.masked_text,
         token_map |-> st.token_map,
         entities_found |-> detected_entities,
         session_id |-> session_id]

\* mask(text, entities_to_mask) for the detection list analyze() returned and
\* the session id uuid4() drew; entities_to_mask is NoneValue or Some list of types
mask(t, detected, entities_to_mask, session_id) ==
    LET filtered == IF ~entities_to_mask.none /\ entities_to_mask.v # <<>>
                    THEN SelectSeq(detected, LAMBDA e :
                             \E k \in 1..Len(entities_to_mask.v) :
                                 entities_to_mask.v[k] = e.entity_type)
                    ELSE detected
        detected_entities == StableSort(filtered, [i \in 1..Len(filtered) |->
                                                   <<-filtered[i].start, 0>>])
        st == MaskLoop(detected_entities, 1,
                  [token_map |-> <<>>, masked_text |-> t,
                   entity_counts |-> [ty \in TypeNames |-> 0]])
    IN  [masked_text |-> st.masked_text,
         token_map |-> st.token_map,
         entities_found |-> detected_entities,
         session_id |-> session_id]

\* a restoration loop that stops after the first key it replaced
RECURSIVE DemaskLoopBreaks(_, _, _)
DemaskLoopBreaks(token_map, i, st) ==
    IF i > Len(token_map) THEN st
    ELSE IF Contains(st.original_text, token_map[i].token)
         THEN [original_text |-> Replace(st.original_text, token_map[i].token,
                                         token_map[i].value),
               entities_restored |-> st.entities_restored + 1]
         ELSE DemaskLoopBreaks(token_map, i + 1, st)

\* the restoration loop of demask(), from entry i of token_map on
RECURSIVE DemaskLoop(_, _, _)
DemaskLoop(token_map, i, st) ==
    IF i > Len(token_map) THEN st
    ELSE IF Contains(st.original_text, token_map[i].token)
         THEN DemaskLoop(token_map, i + 1,
                  [original_text |-> Replace(st.original_text, token_map[i].token,
                                             token_map[i].value),
                   entities_restored |-> st.entities_restored + 1])
         ELSE DemaskLoop(token_map, i + 1, st)

\* mutant of demask: the session's map, when there is one, wins over token_map
DemaskPrefersSession(sess, masked_text, session_id, token_map) ==
    IF token_map.none /\ session_id = None THEN [raised |-> "ValueError"]
    ELSE LET tm == IF session_id \in DOMAIN sess THEN sess[session_id]
                   ELSE IF ~token_map.none THEN token_map.v ELSE <<>>
         IN  DemaskLoop(tm, 1, [original_text |-> masked_text, entities_restored |-> 0])

\* demask(masked_text, session_id, token_map) against the session map sess;
\* [raised |-> "ValueError"] when neither session_id nor token_map is given
demask(sess, masked_text, session_id, token_map) ==
    IF token_map.none /\ session_id = None THEN [raised |-> "ValueError"]
    ELSE LET tm == IF ~token_map.none THEN token_map.v
                   ELSE IF session_id \in DOMAIN sess THEN sess[session_id] ELSE <<>>
         IN  DemaskLoop(tm, 1, [original_text |-> masked_text, entities_restored |-> 0])

\* a clear_session that forgets every session
ClearAllSessions(sess, session_id) ==
    [s \in {} |-> <<>>]

\* clear_session(session_id)
clear_session(sess, session_id) ==
    [s \in DOMAIN sess \ {session_id} |-> sess[s]]

(***************************************************************************)
(* The mask -> demask round trip of one PrivacyFilter instance, for every  *)
(* text and every candidate list within the bounds.                        *)
(***************************************************************************)
SessionIds == {"s1", "s2"}
EntitiesToMaskArgs == {NoneValue, Some(<<>>), Some(<<EMAIL_ADDRESS>>)}

Texts == UNION {[1..n -> Alphabet] : n \in 0..MaxLen}

\* what a detector can report about t: a type, a span of t, a score, the span's text
Candidates(t) ==
    {[entity_type |-> ty, start |-> i, end |-> j, score |-> sc, text |-> Slice(t, i, j)] :
        ty \in TypeNames, i \in 0..(Len(t) - 1), j \in 1..Len(t), sc \in Scores}
    \ {c \in [entity_type : TypeNames, start : 0..MaxLen, end : 0..MaxLen,
              score : Scores, text : Texts] : c.end <= c.start}

NoSessions == [s \in {} |-> <<>>]
NeverStored == [none |-> TRUE, v |-> <<>>, at |-> 0]

\* app.state.use_nats, NATSSessionStore.ttl_seconds and the KDFEncryption settings
NoConfig == [use_nats |-> FALSE, ttl_seconds |-> TtlTicks, master_key |-> None,
             master_key_previous |-> None, rotation_period |-> RotationTicks]

InitMask ==
    /\ text \in Texts
    /\ cands \in UNION {[1..n -> Candidates(text)] : n \in 0..MaxCands}
    /\ pc = "start"
    /\ mres = None
    /\ dres = None
    /\ sessions = NoSessions
    /\ created_at = NoSessions
    /\ kv = NoSessions
    /\ last_store = [s \in SessionIds |-> NeverStored]
    /\ now = 0
    /\ cfg = NoConfig
    /\ ret = None
    /\ encrypted = NoneValue
    /\ _store = NoStore
    /\ _fernet_cache = <<>>
    /\ proc = NoProcs

\* result = filter.mask(text, entities_to_mask)
MaskCall ==
    /\ pc = "start"
    /\ \E entities_to_mask \in EntitiesToMaskArgs, session_id \in SessionIds \ DOMAIN sessions :
        LET result == mask(text, analyze(text, cands), entities_to_mask, session_id)
        IN  /\ mres' = result
            /\ sessions' = [s \in DOMAIN sessions \cup {session_id} |->
                               IF s = session_id THEN result.token_map ELSE sessions[s]]
            /\ created_at' = [s \in DOMAIN sessions \cup {session_id} |->
                               IF s = session_id THEN now ELSE created_at[s]]
            /\ ret' = [op |-> "mask", entities_to_mask |-> entities_to_mask]
    /\ pc' = "masked"
    /\ UNCHANGED <<_store, _fernet_cache, proc>>
    /\ UNCHANGED <<text, cands, dres, kv, last_store, now, cfg, encrypted>>

\* filter.demask(result.masked_text, session_id=result.session_id)
DemaskCall ==
    /\ pc = "masked"
    /\ dres' = demask(sessions, mres.masked_text, mres.session_id, NoneValue)
    /\ pc' = "demasked"
    /\ UNCHANGED <<_store, _fernet_cache, proc>>
    /\ UNCHANGED <<text, cands, mres, sessions, created_at, kv, last_store, now, cfg, ret, encrypted>>

NextMask == MaskCall \/ DemaskCall

SpecMask == InitMask /\ [][NextMask]_vars

(***************************************************************************)
(* Claims about the round trip.                                            *)
(***************************************************************************)
\* C1: round-trip law: demask(mask(T).masked_text, session_id) returns T
\* whenever no original value is identical to another entity's token.
RoundTripLaw ==
    (pc = "demasked"
        /\ \A i, j \in 1..Len(mres.token_map) :
              i # j => mres.token_map[i].value # mres.token_map[j].token)
    => dres.original_text = text

\* C2: the entity list mask() replaces never holds two entities whose
\* half-open ranges [start, end) intersect.
NonOverlapInvariant ==
    pc # "start" =>
        \A i, j \in 1..Len(mres.entities_found) :
            i # j => \/ mres.entities_found[i].end <= mres.entities_found[j].start
                     \/ mres.entities_found[j].end <= mres.entities_found[i].start

\* C3: the tokens generated in one mask() call are pairwise distinct, so
\* token_map has one entry per replaced entity, each holding that entity's text.
TokensPairwiseDistinct ==
    pc # "start" =>
        /\ Len(mres.token_map) = Len(mres.entities_found)
        /\ \A i \in 1..Len(mres.entities_found) :
              \E k \in 1..Len(mres.token_map) :
                  /\ mres.token_map[k].value = mres.entities_found[i].text
                  /\ mres.token_map[k].token =
                        _generate_token(mres.entities_found[i].entity_type,
                            Cardinality({j \in 1..i : mres.entities_found[j].entity_type
                                                      = mres.entities_found[i].entity_type}))

\* C3 witness: two distinct spans with identical text and the same type, the one
\* whose name ends like a token index, were both replaced.
TokensPairwiseDistinctWitness ==
    /\ pc = "masked"
    /\ Len(mres.token_map) = 2
    /\ mres.entities_found[1].text = mres.entities_found[2].text
    /\ mres.entities_found[1].start # mres.entities_found[2].start
    /\ mres.entities_found[1].entity_type = OTHER_TYPE
    /\ mres.entities_found[2].entity_type = OTHER_TYPE
    /\ mres.token_map[1].token # mres.token_map[2].token

\* C4: with entities_to_mask = [EMAIL_ADDRESS] no token of another type is in
\* masked_text and no detected email's literal value is left in masked_text.
\* Stated for inputs where each detected email's value occurs once in the text and
\* the email candidates do not overlap one another.
SelectiveMasking ==
    (/\ pc # "start"
     /\ ret.entities_to_mask = Some(<<EMAIL_ADDRESS>>)
     /\ \A i \in 1..Len(cands) : cands[i].entity_type = EMAIL_ADDRESS =>
           /\ Cardinality({p \in 0..(Len(text) - Len(cands[i].text)) :
                 SubSeq(text, p + 1, p + Len(cands[i].text)) = cands[i].text}) = 1
           /\ \A j \in 1..Len(cands) :
                 (j # i /\ cands[j].entity_type = EMAIL_ADDRESS)
                     => ~Overlaps(cands[i], cands[j]))
    => /\ \A n \in 1..MaxCands :
              ~Contains(mres.masked_text, _generate_token(OTHER_TYPE, n))
       /\ \A i \in 1..Len(cands) : cands[i].entity_type = EMAIL_ADDRESS =>
              ~Contains(mres.masked_text, cands[i].text)

(***************************************************************************)
(* KDFEncryption: a Fernet token is the plaintext sealed under the key     *)
(* derived from (master key, period).                                      *)
(***************************************************************************)
\* Python truthiness of an Optional[str], and `x or y`
Truthy(x) == x # None /\ x # ""
Or(x, y) == IF Truthy(x) THEN x ELSE y

\* len(base64.urlsafe_b64decode(key)); -1 when the decoding raises
DecodedLen(key) ==
    IF key \in {"K1", "K2"} THEN 32
    ELSE IF key = "short" THEN 8
    ELSE IF key = "" THEN 0
    ELSE -1

\* _validate_key: TRUE when it returns, FALSE when it raises ValueError
_validate_key(key) == DecodedLen(key) = 32

\* KDFEncryption(master_key, master_key_previous) with the two environment
\* variables as os.getenv returns them; self is the instance when none raised
KDFEncryption(c, master_key, master_key_previous, env_key, env_previous) ==
    LET _master_key == Or(master_key, env_key)
        _master_key_previous == Or(master_key_previous, env_previous)
    IN  [raised |-> IF (Truthy(_master_key) /\ ~_validate_key(_master_key))
                       \/ (Truthy(_master_key_previous)
                             /\ ~_validate_key(_master_key_previous))
                    THEN "ValueError" ELSE None,
         self |-> [c EXCEPT !.master_key = _master_key,
                            !.master_key_previous = _master_key_previous]]

is_enabled(c) == c.master_key # None

_get_current_period(c, t) == t \div c.rotation_period

\* an encrypt that derives its key for the period before the current one
EncryptStalePeriod(c, t, data) ==
    [fmt |-> "fernet", master_key |-> c.master_key,
     period |-> _get_current_period(c, t) - 1, body |-> data]

encrypt(c, t, data) ==
    [fmt |-> "fernet", master_key |-> c.master_key,
     period |-> _get_current_period(c, t), body |-> data]

\* mutant of decrypt: only the current period's key is tried
DecryptCurrentPeriodOnly(c, t, data) ==
    IF data.fmt = "fernet" /\ data.period = _get_current_period(c, t)
       /\ (data.master_key = c.master_key
             \/ (Truthy(c.master_key_previous) /\ data.master_key = c.master_key_previous))
    THEN [ok |-> TRUE, data |-> data.body]
    ELSE [ok |-> FALSE, data |-> data]

\* mutant of decrypt: the previous master key is never tried
DecryptCurrentKeyOnly(c, t, data) ==
    IF data.fmt = "fernet" /\ data.master_key = c.master_key
       /\ data.period \in {_get_current_period(c, t), _get_current_period(c, t) - 1}
    THEN [ok |-> TRUE, data |-> data.body]
    ELSE [ok |-> FALSE, data |-> data]

\* mutant of decrypt: the token is not authenticated against the key
DecryptAnyKey(c, t, data) ==
    IF data.fmt = "fernet" THEN [ok |-> TRUE, data |-> data.body]
    ELSE [ok |-> FALSE, data |-> data]

\* mutant of decrypt: the period before the previous one is tried as well
DecryptThreePeriods(c, t, data) ==
    IF data.fmt = "fernet"
       /\ data.period \in (_get_current_period(c, t) - 2).._get_current_period(c, t)
       /\ (data.master_key = c.master_key
             \/ (Truthy(c.master_key_previous) /\ data.master_key = c.master_key_previous))
    THEN [ok |-> TRUE, data |-> data.body]
    ELSE [ok |-> FALSE, data |-> data]

\* decrypt: [ok |-> TRUE, data] for the first attempt that authenticates,
\* [ok |-> FALSE] for the ValueError raised when none does
decrypt(c, t, data) ==
    LET current_period == _get_current_period(c, t)
        previous_period == current_period - 1
        attempts == <<<<c.master_key, current_period>>, <<c.master_key, previous_period>>>>
                    \o (IF Truthy(c.master_key_previous)
                        THEN <<<<c.master_key_previous, current_period>>,
                               <<c.master_key_previous, previous_period>>>>
                        ELSE <<>>)
    IN  IF data.fmt = "fernet"
           /\ \E k \in 1..Len(attempts) : attempts[k] = <<data.master_key, data.period>>
        THEN [ok |-> TRUE, data |-> data.body]
        ELSE [ok |-> FALSE, data |-> data]

(***************************************************************************)
(* NATSSessionStore over the KV bucket connect() created with              *)
(* ttl = ttl_seconds and history = 1.                                      *)
(***************************************************************************)
\* mutant of SessionKey: the key does not depend on the session id
SessionKeyShared(session_id) == <<"session:", "shared">>

SessionKey(session_id) == <<"session:", session_id>>

\* json.dumps(token_map).encode() and json.loads(value.decode())
JsonDumps(token_map) == [fmt |-> "json", body |-> token_map]
JsonLoads(value) == value.body

\* mutant of DictUpdate: keys already in d keep their old values
RECURSIVE DictUpdateKeepOld(_, _, _)
DictUpdateKeepOld(d, other, i) ==
    IF i > Len(other) THEN d
    ELSE DictUpdateKeepOld(IF DictHas(d, other[i].token) THEN d
                           ELSE DictPut(d, other[i].token, other[i].value), other, i + 1)

\* {**d, **other}, from entry i of other on
RECURSIVE DictUpdate(_, _, _)
DictUpdate(d, other, i) ==
    IF i > Len(other) THEN d
    ELSE DictUpdate(DictPut(d, other[i].token, other[i].value), other, i + 1)

\* the bucket after kv.put(key, value) at time t
KvPut(kvs, key, value, t) ==
    [k \in DOMAIN kvs \cup {key} |-> IF k = key THEN [value |-> value, ts |-> t] ELSE kvs[k]]

\* the bucket once the server has dropped the messages that reached MaxAge
KvExpire(kvs, ttl, t) ==
    [k \in {x \in DOMAIN kvs : t - kvs[x].ts < ttl} |-> kvs[k]]

\* s.split(sep)[0]: s up to its first sep
SplitFirst(s, sep) ==
    IF \E i \in 1..Len(s) : s[i] = sep
    THEN SubSeq(s, 1, (CHOOSE i \in 1..Len(s) :
                          s[i] = sep /\ \A j \in 1..(i - 1) : s[j] # sep) - 1)
    ELSE s

\* s.strip(ch)
RECURSIVE Strip(_, _)
Strip(s, ch) ==
    IF s # <<>> /\ s[1] = ch THEN Strip(Tail(s), ch)
    ELSE IF s # <<>> /\ s[Len(s)] = ch THEN Strip(SubSeq(s, 1, Len(s) - 1), ch)
    ELSE s

\* {t.split("_")[0].strip("<") for t in token_map.keys()}; the order list() gives
\* the set is left open
TokenTypes(token_map) ==
    {Strip(SplitFirst(token_map[i].token, "_"), "<") : i \in 1..Len(token_map)}

\* mutant of store_session: the audit event carries the token map
StoreSessionLeaksValues(kvs, c, t, session_id, token_map) ==
    LET plain == JsonDumps(token_map)
        value == IF is_enabled(c) THEN encrypt(c, t, plain) ELSE plain
    IN  [kv |-> KvPut(kvs, SessionKey(session_id), value, t),
         event |-> [type |-> "mask", session_id |-> session_id,
                    token_count |-> Len(token_map),
                    token_types |-> {token_map[i] : i \in 1..Len(token_map)},
                    encrypted |-> is_enabled(c)]]

\* store_session: the bucket afterwards and the audit event published
store_session(kvs, c, t, session_id, token_map) ==
    LET plain == JsonDumps(token_map)
        value == IF is_enabled(c) THEN encrypt(c, t, plain) ELSE plain
    IN  [kv |-> KvPut(kvs, SessionKey(session_id), value, t),
         event |-> [type |-> "mask", session_id |-> session_id,
                    token_count |-> Len(token_map),
                    token_types |-> TokenTypes(token_map),
                    encrypted |-> is_enabled(c)]]

\* mutant of get_session: the stored value is parsed without being decrypted
GetSessionSkipsDecrypt(kvs, c, t, session_id) ==
    IF SessionKey(session_id) \notin DOMAIN kvs THEN NoneValue
    ELSE LET value == kvs[SessionKey(session_id)].value
         IN  IF value.fmt = "json" THEN Some(JsonLoads(value))
             ELSE [none |-> TRUE, v |-> <<>>, raised |-> "JSONDecodeError"]

\* get_session: Some(token_map), or NoneValue when the key is not found or
\* the value does not decrypt
get_session(kvs, c, t, session_id) ==
    IF SessionKey(session_id) \notin DOMAIN kvs THEN NoneValue
    ELSE LET value == kvs[SessionKey(session_id)].value
         IN  IF is_enabled(c)
             THEN IF decrypt(c, t, value).ok
                  THEN Some(JsonLoads(decrypt(c, t, value).data))
                  ELSE NoneValue
             ELSE IF value.fmt = "json" THEN Some(JsonLoads(value))
             ELSE [none |-> TRUE, v |-> <<>>, raised |-> "JSONDecodeError"]

\* {token: token_map.get(token, token) for token in tokens}, from token i on
RECURSIVE ResolveLoop(_, _, _, _)
ResolveLoop(token_map, tokens, i, resolved) ==
    IF i > Len(tokens) THEN resolved
    ELSE ResolveLoop(token_map, tokens, i + 1,
             DictPut(resolved, tokens[i], DictGet(token_map, tokens[i], tokens[i])))

\* resolve_tokens: the returned dict and the audit event published (or None)
resolve_tokens(kvs, c, t, session_id, tokens) ==
    LET token_map == get_session(kvs, c, t, session_id)
    IN  IF token_map.none \/ token_map.v = <<>>
        THEN [value |-> <<>>, event |-> [type |-> None]]
        ELSE [value |-> ResolveLoop(token_map.v, tokens, 1, <<>>),
              event |-> [type |-> "resolve", session_id |-> session_id,
                         tokens_requested |-> Len(tokens),
                         tokens_resolved |-> Cardinality({i \in 1..Len(tokens) :
                                                 DictHas(token_map.v, tokens[i])})]]

\* delete_session; raises: kv.delete raised KeyNotFoundError
delete_session(kvs, session_id, raises) ==
    IF raises
    THEN [kv |-> kvs, value |-> FALSE, event |-> [type |-> None]]
    ELSE [kv |-> [k \in DOMAIN kvs \ {SessionKey(session_id)} |-> kvs[k]],
          value |-> TRUE,
          event |-> [type |-> "delete", session_id |-> session_id]]

\* extend_session
extend_session(kvs, c, t, session_id, additional_tokens) ==
    LET existing == get_session(kvs, c, t, session_id)
        merged == DictUpdate(existing.v, additional_tokens, 1)
    IN  IF existing.none
        THEN [kv |-> kvs, value |-> FALSE, event |-> [type |-> None]]
        ELSE [kv |-> store_session(kvs, c, t, session_id, merged).kv,
              value |-> TRUE,
              event |-> store_session(kvs, c, t, session_id, merged).event]

\* a _publish_event that lets the error of nc.publish out
PublishEventPropagates(event, publish_raises) ==
    [raised |-> IF publish_raises THEN "Exception" ELSE None,
     published |-> IF publish_raises THEN NoneValue ELSE Some(event)]

\* _publish_event: nc.publish is awaited inside try/except Exception, a failure
\* (publish_raises) is logged and the event is lost
_publish_event(event, publish_raises) ==
    [raised |-> None,
     published |-> IF publish_raises THEN NoneValue ELSE Some(event)]

\* the outcomes of nc.publish for an operation that emits event: none when the
\* operation returned before publishing
PublishOutcomes(event) == IF event.type = None THEN {FALSE} ELSE BOOLEAN

(***************************************************************************)
(* The store driven directly, as tests/test_nats.py drives it: every       *)
(* operation on every session id, and the passing of time.                 *)
(***************************************************************************)
T1 == _generate_token(EMAIL_ADDRESS, 1)
T2 == _generate_token(EMAIL_ADDRESS, 2)
Entry(k, v) == [token |-> k, value |-> v]

\* the token maps handed to store_session and extend_session
StoreMaps == {<<>>, <<Entry(T1, <<"a">>)>>, <<Entry(T1, <<" ">>), Entry(T2, <<"a">>)>>}
ExtendMaps == {<<Entry(T2, <<" ">>)>>}
\* the token lists handed to resolve
TokenLists == {<<>>, <<T1>>, <<T2, T1>>}

\* the session as last stored and neither deleted nor older than the TTL
LiveView(ls, c, t, session_id) ==
    IF ls[session_id].none \/ t - ls[session_id].at >= c.ttl_seconds THEN NoneValue
    ELSE Some(ls[session_id].v)

Init ==
    /\ text = <<>>
    /\ cands = <<>>
    /\ pc = "idle"
    /\ mres = None
    /\ dres = None
    /\ sessions = NoSessions
    /\ created_at = NoSessions
    /\ kv = NoSessions
    /\ last_store = [s \in SessionIds |-> NeverStored]
    /\ now = 0
    /\ \E key \in {None, "K1"} : cfg = [NoConfig EXCEPT !.use_nats = TRUE, !.master_key = key]
    /\ ret = [op |-> "init"]
    /\ encrypted = NoneValue
    /\ _store = NoStore
    /\ _fernet_cache = <<>>
    /\ proc = NoProcs

maskVars == <<text, cands, pc, mres, dres>>

StoreSession ==
    \E session_id \in SessionIds, token_map \in StoreMaps :
        LET r == store_session(kv, cfg, now, session_id, token_map)
        IN  \E publish_raises \in PublishOutcomes(r.event) :
            LET pub == _publish_event(r.event, publish_raises)
            IN  /\ kv' = r.kv
                /\ last_store' = [last_store EXCEPT ![session_id] =
                                     [none |-> FALSE, v |-> token_map, at |-> now]]
                /\ ret' = [op |-> "store", session_id |-> session_id, arg |-> token_map,
                           pre |-> LiveView(last_store, cfg, now, session_id),
                           value |-> None, event |-> r.event,
                           publish_raises |-> publish_raises, raised |-> pub.raised]
                /\ UNCHANGED <<_store, _fernet_cache, proc>>
                /\ UNCHANGED <<maskVars, sessions, created_at, now, cfg, encrypted>>

GetSession ==
    \E session_id \in SessionIds :
        /\ ret' = [op |-> "get", session_id |-> session_id,
                   pre |-> LiveView(last_store, cfg, now, session_id),
                   value |-> get_session(kv, cfg, now, session_id)]
        /\ UNCHANGED <<_store, _fernet_cache, proc>>
        /\ UNCHANGED <<maskVars, sessions, created_at, kv, last_store, now, cfg, encrypted>>

ResolveTokens ==
    \E session_id \in SessionIds, tokens \in TokenLists :
        LET r == resolve_tokens(kv, cfg, now, session_id, tokens)
        IN  \E publish_raises \in PublishOutcomes(r.event) :
            LET pub == _publish_event(r.event, publish_raises)
            IN  /\ ret' = [op |-> "resolve", session_id |-> session_id, arg |-> tokens,
                           pre |-> LiveView(last_store, cfg, now, session_id),
                           value |-> IF pub.raised = None THEN r.value ELSE <<>>,
                           event |-> r.event,
                           publish_raises |-> publish_raises, raised |-> pub.raised]
                /\ UNCHANGED <<_store, _fernet_cache, proc>>
                /\ UNCHANGED <<maskVars, sessions, created_at, kv, last_store>>
                /\ UNCHANGED <<_store, _fernet_cache, proc, now, cfg, encrypted>>

\* kv.delete publishes a delete marker; for a key the bucket does not hold it may
\* instead raise the KeyNotFoundError the handler catches
DeleteSession ==
    \E session_id \in SessionIds :
      \E raises \in (IF SessionKey(session_id) \in DOMAIN kv THEN {FALSE} ELSE {FALSE, TRUE}) :
        LET r == delete_session(kv, session_id, raises)
        IN  \E publish_raises \in PublishOutcomes(r.event) :
            LET pub == _publish_event(r.event, publish_raises)
            IN  /\ kv' = r.kv
                /\ last_store' = [last_store EXCEPT ![session_id] = NeverStored]
                /\ ret' = [op |-> "delete", session_id |-> session_id,
                           pre |-> LiveView(last_store, cfg, now, session_id),
                           value |-> IF pub.raised = None THEN r.value ELSE FALSE,
                           event |-> r.event,
                           publish_raises |-> publish_raises, raised |-> pub.raised]
                /\ UNCHANGED <<_store, _fernet_cache, proc>>
                /\ UNCHANGED <<maskVars, sessions, created_at, now, cfg, encrypted>>

ExtendSession ==
    \E session_id \in SessionIds, additional_tokens \in ExtendMaps :
        LET r == extend_session(kv, cfg, now, session_id, additional_tokens)
        IN  \E publish_raises \in PublishOutcomes(r.event) :
            LET pub == _publish_event(r.event, publish_raises)
            IN  /\ kv' = r.kv
                /\ last_store' =
                     IF r.value
                     THEN [last_store EXCEPT ![session_id] =
                              [none |-> FALSE, at |-> now,
                               v |-> DictUpdate(get_session(kv, cfg, now, session_id).v,
                                                additional_tokens, 1)]]
                     ELSE last_store
                /\ ret' = [op |-> "extend", session_id |-> session_id,
                           arg |-> additional_tokens,
                           pre |-> LiveView(last_store, cfg, now, session_id),
                           value |-> IF pub.raised = None THEN r.value ELSE FALSE,
                           event |-> r.event,
                           publish_raises |-> publish_raises, raised |-> pub.raised]
                /\ UNCHANGED <<_store, _fernet_cache, proc>>
                /\ UNCHANGED <<maskVars, sessions, created_at, now, cfg, encrypted>>

\* a tick of the clock; the server drops the messages that reached MaxAge
Tick ==
    /\ now < MaxTime
    /\ now' = now + 1
    /\ kv' = KvExpire(kv, cfg.ttl_seconds, now + 1)
    /\ ret' = [op |-> "tick"]
    /\ UNCHANGED <<_store, _fernet_cache, proc>>
    /\ UNCHANGED <<maskVars, sessions, created_at, last_store, cfg, encrypted>>

Next ==
    \/ StoreSession
    \/ GetSession
    \/ ResolveTokens
    \/ DeleteSession
    \/ ExtendSession
    \/ Tick

Spec == Init /\ [][Next]_vars

(***************************************************************************)
(* Claims about the store.                                                 *)
(***************************************************************************)
\* C5: get(id) returns exactly the token map given to the most recent
\* store(id, .) within its lifetime, whatever was stored under other ids or under
\* id before; an id never stored, or deleted since, is not found.
StoreGetLaw ==
    \A session_id \in SessionIds :
        /\ last_store[session_id].none
              => get_session(kv, cfg, now, session_id) = NoneValue
        /\ (~last_store[session_id].none
              /\ now - last_store[session_id].at < cfg.ttl_seconds)
              => get_session(kv, cfg, now, session_id) = Some(last_store[session_id].v)

\* C5 witness: a store replaced a different live map of the same id while the
\* other id holds a live map of its own.
StoreGetLawWitness ==
    /\ ret.op = "store"
    /\ ~ret.pre.none
    /\ ret.pre.v # ret.arg
    /\ Len(ret.pre.v) > Len(ret.arg)
    /\ \E other \in SessionIds \ {ret.session_id} :
          /\ ~LiveView(last_store, cfg, now, other).none
          /\ LiveView(last_store, cfg, now, other).v # ret.arg
          /\ get_session(kv, cfg, now, other).v # <<>>

\* C7: resolve on an existing session returns a mapping whose keys are exactly the
\* requested tokens, each mapped to its original value if the session's map has
\* it and to itself otherwise.
ResolvePartial ==
    (ret.op = "resolve" /\ ~ret.pre.none) =>
        /\ {ret.value[i].token : i \in 1..Len(ret.value)}
              = {ret.arg[i] : i \in 1..Len(ret.arg)}
        /\ \A i \in 1..Len(ret.arg) :
              DictGet(ret.value, ret.arg[i], <<>>)
                 = DictGet(ret.pre.v, ret.arg[i], ret.arg[i])

\* C9: delete returns true exactly when the session existed at the call; after
\* it the session is not found and the other sessions are unchanged.
DeleteLaw ==
    ret.op = "delete" =>
        /\ ret.value = ~ret.pre.none
        /\ get_session(kv, cfg, now, ret.session_id) = NoneValue
        /\ \A other \in SessionIds \ {ret.session_id} :
              get_session(kv, cfg, now, other) = LiveView(last_store, cfg, now, other)

\* C10: extend on an existing session returns true and leaves the old map
\* overridden by additional_tokens; on an absent session it returns false and
\* creates nothing.
ExtendLaw ==
    ret.op = "extend" =>
        LET got == get_session(kv, cfg, now, ret.session_id)
            keys(d) == {d[i].token : i \in 1..Len(d)}
        IN  IF ret.pre.none
            THEN ret.value = FALSE /\ got = NoneValue
            ELSE /\ ret.value = TRUE
                 /\ ~got.none
                 /\ keys(got.v) = keys(ret.pre.v) \cup keys(ret.arg)
                 /\ Len(got.v) = Cardinality(keys(got.v))
                 /\ \A k \in keys(got.v) :
                       DictGet(got.v, k, <<>>)
                          = IF k \in keys(ret.arg) THEN DictGet(ret.arg, k, <<>>)
                            ELSE DictGet(ret.pre.v, k, <<>>)

\* C10 witness: an extend overrode one key of a two-key session with a new value
\* and kept the other key.
ExtendLawWitness ==
    /\ ret.op = "extend"
    /\ ret.value = TRUE
    /\ ~ret.pre.none
    /\ Len(ret.pre.v) = 2
    /\ \E i \in 1..Len(ret.arg) :
          /\ DictHas(ret.pre.v, ret.arg[i].token)
          /\ DictGet(ret.pre.v, ret.arg[i].token, <<>>) # ret.arg[i].value
    /\ Len(get_session(kv, cfg, now, ret.session_id).v) = 2

(***************************************************************************)
(* The HTTP handlers of api/main.py over one PrivacyFilter instance and,   *)
(* when app.state.use_nats is set, the NATS store.                         *)
(***************************************************************************)
ApiRequests ==
    {[text |-> <<>>, cands |-> <<>>, entities_to_mask |-> NoneValue],
     [text |-> <<"a">>, entities_to_mask |-> NoneValue,
      cands |-> <<[entity_type |-> EMAIL_ADDRESS, start |-> 0, end |-> 1,
                   score |-> 95, text |-> <<"a">>]>>]}

MaskedTexts == {T1, <<"a">>}

InitApi ==
    /\ text = <<>>
    /\ cands = <<>>
    /\ pc = "serving"
    /\ mres = None
    /\ dres = None
    /\ sessions = NoSessions
    /\ created_at = NoSessions
    /\ kv = NoSessions
    /\ last_store = [s \in SessionIds |-> NeverStored]
    /\ now = 0
    /\ \E use_nats \in BOOLEAN : cfg = [NoConfig EXCEPT !.use_nats = use_nats]
    /\ ret = [op |-> "init"]
    /\ encrypted = NoneValue
    /\ _store = NoStore
    /\ _fernet_cache = <<>>
    /\ proc = NoProcs

\* the session as the backend in use holds it
Held(sess, kvs, c, t, session_id) ==
    IF c.use_nats THEN ~get_session(kvs, c, t, session_id).none
    ELSE session_id \in DOMAIN sess

\* POST /mask
mask_text ==
    \E request \in ApiRequests, session_id \in SessionIds \ DOMAIN created_at :
        LET result == mask(request.text, analyze(request.text, request.cands),
                           request.entities_to_mask, session_id)
        IN  /\ sessions' = [s \in DOMAIN sessions \cup {session_id} |->
                               IF s = session_id THEN result.token_map ELSE sessions[s]]
            /\ created_at' = [s \in DOMAIN created_at \cup {session_id} |->
                               IF s = session_id THEN now ELSE created_at[s]]
            /\ IF cfg.use_nats
               THEN /\ kv' = store_session(kv, cfg, now, session_id, result.token_map).kv
                    /\ last_store' = [last_store EXCEPT ![session_id] =
                                        [none |-> FALSE, v |-> result.token_map, at |-> now]]
               ELSE UNCHANGED <<_store, _fernet_cache, proc, kv, last_store>>
            /\ ret' = [op |-> "api_mask", session_id |-> session_id, status |-> 200,
                       masked_text |-> result.masked_text,
                       entities_found |-> Len(result.entities_found),
                       token_map |-> result.token_map]
            /\ UNCHANGED <<_store, _fernet_cache, proc, maskVars, now, cfg, encrypted>>

\* POST /demask
demask_text ==
    \E session_id \in SessionIds, masked_text \in MaskedTexts :
        LET token_map == IF cfg.use_nats THEN get_session(kv, cfg, now, session_id)
                         ELSE NoneValue
            result == IF ~token_map.none /\ token_map.v # <<>>
                      THEN DemaskLoop(token_map.v, 1,
                               [original_text |-> masked_text, entities_restored |-> 0])
                      ELSE demask(sessions, masked_text, session_id, NoneValue)
        IN  /\ ret' = [op |-> "api_demask", session_id |-> session_id, status |-> 200,
                       arg |-> masked_text,
                       held |-> Held(sessions, kv, cfg, now, session_id),
                       original_text |-> result.original_text,
                       entities_restored |-> result.entities_restored]
            /\ UNCHANGED <<_store, _fernet_cache, proc>>
            /\ UNCHANGED <<maskVars, sessions, created_at, kv, last_store, now, cfg, encrypted>>

\* POST /resolve
api_resolve_tokens ==
    \E session_id \in SessionIds, tokens \in TokenLists :
        LET resolved == IF cfg.use_nats
                        THEN resolve_tokens(kv, cfg, now, session_id, tokens).value
                        ELSE ResolveLoop(IF session_id \in DOMAIN sessions
                                         THEN sessions[session_id] ELSE <<>>,
                                         tokens, 1, <<>>)
        IN  /\ ret' = [op |-> "api_resolve", session_id |-> session_id, arg |-> tokens,
                       held |-> Held(sessions, kv, cfg, now, session_id),
                       status |-> IF resolved = <<>> THEN 404 ELSE 200,
                       resolved |-> resolved]
            /\ UNCHANGED <<_store, _fernet_cache, proc>>
            /\ UNCHANGED <<maskVars, sessions, created_at, kv, last_store, now, cfg, encrypted>>

\* DELETE /session/{session_id}: store.delete_session is awaited outside any try,
\* so an error of the store other than KeyNotFoundError (fails) leaves the handler
\* before filter_instance.clear_session runs and the response is a 500
api_clear_session ==
    \E session_id \in SessionIds, fails \in BOOLEAN :
      \E raises \in (IF SessionKey(session_id) \in DOMAIN kv THEN {FALSE} ELSE {FALSE, TRUE}) :
        LET r == delete_session(kv, session_id, raises)
            called == [op |-> "api_clear", session_id |-> session_id,
                       held |-> Held(sessions, kv, cfg, now, session_id),
                       in_memory |-> session_id \in DOMAIN sessions,
                       in_nats |-> cfg.use_nats /\ SessionKey(session_id) \in DOMAIN kv]
        IN  IF cfg.use_nats /\ fails
            THEN /\ ret' = called @@ [status |-> 500, nats_deleted |-> FALSE]
                 /\ UNCHANGED <<_store, _fernet_cache, proc>>
                 /\ UNCHANGED <<maskVars, sessions, created_at, kv, last_store>>
                 /\ UNCHANGED <<_store, _fernet_cache, proc, now, cfg, encrypted>>
            ELSE /\ IF cfg.use_nats
                    THEN /\ kv' = r.kv
                         /\ last_store' = [last_store EXCEPT ![session_id] = NeverStored]
                    ELSE UNCHANGED <<_store, _fernet_cache, proc, kv, last_store>>
                 /\ sessions' = clear_session(sessions, session_id)
                 /\ ret' = called @@ [status |-> 200,
                                      nats_deleted |-> IF cfg.use_nats THEN r.value ELSE FALSE]
                 /\ UNCHANGED <<_store, _fernet_cache, proc>>
                 /\ UNCHANGED <<maskVars, created_at, now, cfg, encrypted>>

NextApi ==
    \/ mask_text
    \/ demask_text
    \/ api_resolve_tokens
    \/ api_clear_session
    \/ Tick

SpecApi == InitApi /\ [][NextApi]_vars

\* C6: in both backends a session stored and not re-stored for longer than the
\* TTL is not found, like a deleted one.
SessionExpiry ==
    \A session_id \in SessionIds :
        /\ (session_id \in DOMAIN created_at
              /\ now - created_at[session_id] > cfg.ttl_seconds)
              => session_id \notin DOMAIN sessions
        /\ (~last_store[session_id].none
              /\ now - last_store[session_id].at > cfg.ttl_seconds)
              => get_session(kv, cfg, now, session_id) = NoneValue

\* C8: POST /resolve answers "not found" if and only if the session is absent
\* from the backend in use, whatever its token map and the token list.
ResolveNotFoundIffAbsent ==
    ret.op = "api_resolve" => (ret.status = 404 <=> ~ret.held)

(***************************************************************************)
(* One KDFEncryption instance at a time: the process is (re)started with   *)
(* any key arguments and environment, encrypts, and decrypts the token the *)
(* last encrypt returned, while the clock runs.                            *)
(***************************************************************************)
KeyArgs == {None, "K1", "K2", "short", "bad"}
PreviousKeyArgs == {None, "K1", "short"}
EnvKeys == {None, ""}
Plaintexts == {JsonDumps(<<>>), JsonDumps(<<Entry(T1, <<"a">>)>>)}

InitEnc ==
    /\ text = <<>>
    /\ cands = <<>>
    /\ pc = "idle"
    /\ mres = None
    /\ dres = None
    /\ sessions = NoSessions
    /\ created_at = NoSessions
    /\ kv = NoSessions
    /\ last_store = [s \in SessionIds |-> NeverStored]
    /\ now = 0
    /\ cfg = NoConfig
    /\ ret = [op |-> "init"]
    /\ encrypted = NoneValue
    /\ _store = NoStore
    /\ _fernet_cache = <<>>
    /\ proc = NoProcs

storeVars == <<sessions, created_at, kv, last_store>>

\* cipher = KDFEncryption(master_key=..., master_key_previous=...)
Construct ==
    \E master_key \in KeyArgs, master_key_previous \in PreviousKeyArgs, env_key \in EnvKeys :
        LET r == KDFEncryption(cfg, master_key, master_key_previous, env_key, None)
        IN  /\ cfg' = IF r.raised = None THEN r.self ELSE cfg
            /\ ret' = [op |-> "construct", master_key |-> master_key,
                       master_key_previous |-> master_key_previous,
                       env_key |-> env_key, raised |-> r.raised]
            /\ UNCHANGED <<_store, _fernet_cache, proc, maskVars, storeVars, now, encrypted>>

\* encrypted = cipher.encrypt(plaintext)
Encrypt ==
    \E plaintext \in Plaintexts :
        /\ encrypted' = IF is_enabled(cfg)
                        THEN Some([token |-> encrypt(cfg, now, plaintext),
                                   plaintext |-> plaintext, by |-> cfg, at |-> now])
                        ELSE encrypted
        /\ ret' = [op |-> "encrypt",
                   raised |-> IF is_enabled(cfg) THEN None ELSE "RuntimeError"]
        /\ UNCHANGED <<_store, _fernet_cache, proc, maskVars, storeVars, now, cfg>>

\* cipher.decrypt(encrypted)
Decrypt ==
    /\ ~encrypted.none
    /\ ret' = IF ~is_enabled(cfg)
              THEN [op |-> "decrypt", raised |-> "RuntimeError"]
              ELSE IF decrypt(cfg, now, encrypted.v.token).ok
              THEN [op |-> "decrypt", raised |-> None,
                    value |-> decrypt(cfg, now, encrypted.v.token).data]
              ELSE [op |-> "decrypt", raised |-> "ValueError"]
    /\ UNCHANGED <<_store, _fernet_cache, proc, maskVars, storeVars, now, cfg, encrypted>>

NextEnc ==
    \/ Construct
    \/ Encrypt
    \/ Decrypt
    \/ Tick

SpecEnc == InitEnc /\ [][NextEnc]_vars

(***************************************************************************)
(* Claims about the encryption layer.                                      *)
(***************************************************************************)
\* C11: under the master secret that encrypted it (the same instance or another one
\* built with that secret) decrypt returns the plaintext; under a configuration
\* whose current and previous secrets are both unrelated it raises the ValueError.
EncryptRoundTrip ==
    (ret.op = "decrypt" /\ is_enabled(cfg)) =>
        /\ (cfg.master_key = encrypted.v.by.master_key
              /\ now \div cfg.rotation_period = encrypted.v.at \div cfg.rotation_period)
              => (ret.raised = None /\ ret.value = encrypted.v.plaintext)
        /\ (encrypted.v.by.master_key \notin {cfg.master_key, cfg.master_key_previous})
              => ret.raised = "ValueError"

\* C11 witness: a non-empty token map encrypted by one instance was decrypted by
\* another instance built with the same master secret.
EncryptRoundTripWitness ==
    /\ ret.op = "decrypt"
    /\ ret.raised = None
    /\ encrypted.v.by # cfg
    /\ encrypted.v.by.master_key = cfg.master_key
    /\ ret.value = encrypted.v.plaintext
    /\ ret.value # JsonDumps(<<>>)

\* C12: a token made in period N decrypts in period N+1 under the same master secret.
RotationContinuity ==
    (ret.op = "decrypt" /\ is_enabled(cfg)
       /\ cfg.master_key = encrypted.v.by.master_key
       /\ now \div cfg.rotation_period = (encrypted.v.at \div cfg.rotation_period) + 1)
        => (ret.raised = None /\ ret.value = encrypted.v.plaintext)

\* C12 witness: a token of period 0 was decrypted in period 1.
RotationContinuityWitness ==
    /\ ret.op = "decrypt"
    /\ ret.raised = None
    /\ encrypted.v.at \div cfg.rotation_period = 0
    /\ now \div cfg.rotation_period = 1
    /\ cfg.master_key = encrypted.v.by.master_key
    /\ cfg.master_key_previous = None

\* C14: decrypt succeeds exactly when the token was made, in the current or the
\* previous period, with the current secret or with the configured previous secret
\* of the decrypting instance, and then returns the plaintext.
SecretRotation ==
    (ret.op = "decrypt" /\ is_enabled(cfg)) =>
        LET made_by == encrypted.v.by.master_key
            made_in == encrypted.v.at \div encrypted.v.by.rotation_period
            current == now \div cfg.rotation_period
        IN  /\ (ret.raised = None) <=>
                  /\ made_in \in {current, current - 1}
                  /\ \/ made_by = cfg.master_key
                     \/ (Truthy(cfg.master_key_previous)
                           /\ made_by = cfg.master_key_previous)
            /\ ret.raised = None => ret.value = encrypted.v.plaintext
            /\ ret.raised # None => ret.raised = "ValueError"

\* C14 witness: data encrypted while K1 was the current secret was decrypted under
\* (current = K2, previous = K1).
SecretRotationWitness ==
    /\ ret.op = "decrypt"
    /\ ret.raised = None
    /\ encrypted.v.by.master_key = "K1"
    /\ cfg.master_key = "K2"
    /\ cfg.master_key_previous = "K1"
    /\ ret.value = encrypted.v.plaintext

\* C15: no instance has is_enabled = true with a master secret that does not
\* decode to 32 bytes, nor a previous secret that does not.
KeyValidatedAtConstruction ==
    /\ is_enabled(cfg) => DecodedLen(cfg.master_key) = 32
    /\ cfg.master_key_previous # None => DecodedLen(cfg.master_key_previous) = 32

(***************************************************************************)
(* The store across restarts of the service: the bucket lives in the NATS  *)
(* server and keeps its records while the process comes back with another  *)
(* key configuration.                                                      *)
(***************************************************************************)
RestartKeys == {None, "K1", "K2"}

\* the process starts again: get_encryption() builds the instance from the environment
Restart ==
    \E env_key \in RestartKeys, env_previous \in {None, "K1"} :
        LET r == KDFEncryption(cfg, None, None, env_key, env_previous)
        IN  /\ r.raised = None
            /\ r.self # cfg
            /\ cfg' = r.self
            /\ ret' = [op |-> "restart"]
            /\ UNCHANGED <<_store, _fernet_cache, proc, maskVars, storeVars, now, encrypted>>

NextRestart ==
    \/ StoreSession
    \/ GetSession
    \/ ResolveTokens
    \/ DeleteSession
    \/ ExtendSession
    \/ Restart

SpecRestart == Init /\ [][NextRestart]_vars

\* the bucket holds a record for the id that the instance cannot decrypt
Undecryptable(kvs, c, t, session_id) ==
    /\ SessionKey(session_id) \in DOMAIN kvs
    /\ is_enabled(c)
    /\ ~decrypt(c, t, kvs[SessionKey(session_id)].value).ok

\* C13: when the stored record authenticates under no tried key, get, resolve and
\* extend give an outcome that differs from the one for a session that does not exist.
DecryptionFailureDistinct ==
    (ret.op \in {"get", "resolve", "extend"}
       /\ Undecryptable(kv, cfg, now, ret.session_id)) =>
        /\ ret.op = "get" => ret.value # get_session(NoSessions, cfg, now, ret.session_id)
        /\ ret.op = "resolve" =>
              ret.value # resolve_tokens(NoSessions, cfg, now, ret.session_id, ret.arg).value
        /\ ret.op = "extend" =>
              ret.value # extend_session(NoSessions, cfg, now, ret.session_id, ret.arg).value

(***************************************************************************)
(* Claims about the MaskingResult.                                         *)
(***************************************************************************)
\* C19: entities_found is the detection list as analyze() returned it, before the
\* type filter and before the re-sort.
EntitiesFoundIsDetectionList ==
    pc # "start" => mres.entities_found = analyze(text, cands)

\* C20: the replaced entities of one type are numbered 1, 2, ... in the order they
\* occur in the text (checked where the replaced entities do not overlap).
TokenNumberingInTextOrder ==
    (pc # "start"
       /\ Len(mres.token_map) = Len(mres.entities_found)
       /\ \A i, j \in 1..Len(mres.entities_found) :
             i # j => ~Overlaps(mres.entities_found[i], mres.entities_found[j])) =>
        \A k \in 1..Len(mres.entities_found) :
            LET e == mres.entities_found[k]
                before == {j \in 1..Len(mres.entities_found) :
                              /\ mres.entities_found[j].entity_type = e.entity_type
                              /\ mres.entities_found[j].start < e.start}
            IN  /\ mres.token_map[k].value = e.text
                /\ mres.token_map[k].token
                      = _generate_token(e.entity_type, Cardinality(before) + 1)

(***************************************************************************)
(* One PrivacyFilter instance called any number of times: mask on a few    *)
(* texts, demask with every combination of arguments, clear_session.       *)
(***************************************************************************)
FilterRequests ==
    ApiRequests \cup
    {[text |-> <<"a", "a">>, entities_to_mask |-> NoneValue,
      cands |-> <<[entity_type |-> EMAIL_ADDRESS, start |-> 0, end |-> 1,
                   score |-> 95, text |-> <<"a">>],
                  [entity_type |-> EMAIL_ADDRESS, start |-> 1, end |-> 2,
                   score |-> 95, text |-> <<"a">>]>>],
     [text |-> <<"a">> \o T2, entities_to_mask |-> NoneValue,
      cands |-> <<[entity_type |-> EMAIL_ADDRESS, start |-> 0, end |-> 1,
                   score |-> 95, text |-> <<"a">>],
                  [entity_type |-> EMAIL_ADDRESS, start |-> 4, end |-> 5,
                   score |-> 95, text |-> <<"2">>]>>]}

DemaskTexts ==
    {<<"a">>, T1, T1 \o T1, T2 \o <<"a">> \o T1, T2 \o <<"<", "E", "_">> \o T1 \o <<">">>}
DemaskMaps ==
    StoreMaps \cup {<<Entry(T1, T2), Entry(T2, <<"a">>)>>,
                    <<Entry(T2, <<"a">>), Entry(T1, <<"2">>)>>}

InitFilter ==
    /\ text = <<>>
    /\ cands = <<>>
    /\ pc = "ready"
    /\ mres = None
    /\ dres = None
    /\ sessions = NoSessions
    /\ created_at = NoSessions
    /\ kv = NoSessions
    /\ last_store = [s \in SessionIds |-> NeverStored]
    /\ now = 0
    /\ cfg = NoConfig
    /\ ret = [op |-> "init"]
    /\ encrypted = NoneValue
    /\ _store = NoStore
    /\ _fernet_cache = <<>>
    /\ proc = NoProcs

\* filter.mask(text) and filter.mask(text, session_id=...): mask() has no
\* session_id parameter, so the second form raises TypeError before the body runs
FilterMask ==
    \E request \in FilterRequests, session_id \in {None} \cup SessionIds :
        IF session_id # None
        THEN /\ ret' = [op |-> "mask", session_id |-> session_id, raised |-> "TypeError",
                        pre |-> sessions]
             /\ UNCHANGED <<_store, _fernet_cache, proc>>
             /\ UNCHANGED <<text, cands, pc, mres, dres, sessions, created_at>>
             /\ UNCHANGED <<_store, _fernet_cache, proc, kv, last_store, now, cfg, encrypted>>
        ELSE \E uuid4 \in SessionIds \ DOMAIN created_at :
                LET result == mask(request.text, analyze(request.text, request.cands),
                                   request.entities_to_mask, uuid4)
                IN  /\ text' = request.text
                    /\ cands' = request.cands
                    /\ mres' = result
                    /\ sessions' = [s \in DOMAIN sessions \cup {uuid4} |->
                                       IF s = uuid4 THEN result.token_map ELSE sessions[s]]
                    /\ created_at' = [s \in DOMAIN created_at \cup {uuid4} |->
                                       IF s = uuid4 THEN now ELSE created_at[s]]
                    /\ ret' = [op |-> "mask", session_id |-> session_id, raised |-> None,
                               pre |-> sessions]
                    /\ UNCHANGED <<_store, _fernet_cache, proc>>
                    /\ UNCHANGED <<pc, dres, kv, last_store, now, cfg, encrypted>>

\* filter.demask(masked_text, session_id=..., token_map=...)
FilterDemask ==
    \E masked_text \in DemaskTexts, session_id \in {None} \cup SessionIds,
       token_map \in {NoneValue} \cup {Some(m) : m \in DemaskMaps} :
        /\ dres' = demask(sessions, masked_text, session_id, token_map)
        /\ ret' = [op |-> "demask", masked_text |-> masked_text, session_id |-> session_id,
                   token_map |-> token_map, pre |-> sessions]
        /\ UNCHANGED <<_store, _fernet_cache, proc, text, cands, pc, mres, sessions, created_at>>
        /\ UNCHANGED <<_store, _fernet_cache, proc, kv, last_store, now, cfg, encrypted>>

\* filter.clear_session(session_id)
FilterClear ==
    \E session_id \in SessionIds :
        /\ sessions' = clear_session(sessions, session_id)
        /\ ret' = [op |-> "clear", session_id |-> session_id, pre |-> sessions]
        /\ UNCHANGED <<_store, _fernet_cache, proc, text, cands, pc, mres, dres, created_at>>
        /\ UNCHANGED <<_store, _fernet_cache, proc, kv, last_store, now, cfg, encrypted>>

NextFilter ==
    \/ FilterMask
    \/ FilterDemask
    \/ FilterClear

SpecFilter == InitFilter /\ [][NextFilter]_vars

(***************************************************************************)
(* Claims about demask and about mask's session id.                        *)
(***************************************************************************)
\* C16: demask uses a directly given token_map; otherwise the map stored for
\* session_id, an absent id acting as an empty map; with neither argument it raises
\* ValueError; it never changes the sessions.
DemaskTokenMapRule ==
    ret.op = "demask" =>
        LET given == ~ret.token_map.none
            held == ret.session_id \in DOMAIN ret.pre
            start == [original_text |-> ret.masked_text, entities_restored |-> 0]
        IN  /\ sessions = ret.pre
            /\ (~given /\ ret.session_id = None) <=> "raised" \in DOMAIN dres
            /\ (~given /\ ret.session_id = None) => dres.raised = "ValueError"
            /\ given => dres = DemaskLoop(ret.token_map.v, 1, start)
            /\ (~given /\ held) => dres = DemaskLoop(ret.pre[ret.session_id], 1, start)
            /\ (~given /\ ~held /\ ret.session_id # None) => dres = start

\* C16 witness: demask was given both the id of a session and a token_map that
\* restores the text differently, and used the token_map.
DemaskTokenMapRuleWitness ==
    /\ ret.op = "demask"
    /\ ~ret.token_map.none
    /\ ret.session_id \in DOMAIN sessions
    /\ dres.entities_restored = 1
    /\ dres # DemaskLoop(sessions[ret.session_id], 1,
                  [original_text |-> ret.masked_text, entities_restored |-> 0])
    /\ DemaskLoop(sessions[ret.session_id], 1,
           [original_text |-> ret.masked_text, entities_restored |-> 0]).entities_restored = 1

MaskSessionIdArgument ==
    ret.op = "mask" =>
        IF ret.session_id # None
        THEN /\ ret.raised = None
             /\ mres.session_id = ret.session_id
             /\ ret.session_id \in DOMAIN sessions
             /\ sessions[ret.session_id] = mres.token_map
        ELSE /\ mres.session_id \notin DOMAIN ret.pre
             /\ sessions[mres.session_id] = mres.token_map


\* C21: sessions are isolated: mask adds the new session with the map it returned
\* and leaves every other session as it was, clear_session removes only the named
\* session, demask changes no session, and demask by session id gives the result it
\* gives when that session is the only one held.
SessionIsolation ==
    /\ (ret.op = "mask" /\ ret.raised = None) =>
          /\ DOMAIN sessions = DOMAIN ret.pre \cup {mres.session_id}
          /\ mres.session_id \notin DOMAIN ret.pre
          /\ sessions[mres.session_id] = mres.token_map
          /\ \A s \in DOMAIN ret.pre : sessions[s] = ret.pre[s]
    /\ (ret.op = "mask" /\ ret.raised # None) => sessions = ret.pre
    /\ ret.op = "clear" =>
          /\ DOMAIN sessions = DOMAIN ret.pre \ {ret.session_id}
          /\ \A s \in DOMAIN sessions : sessions[s] = ret.pre[s]
    /\ ret.op = "demask" =>
          /\ sessions = ret.pre
          /\ (ret.token_map.none /\ ret.session_id \in DOMAIN ret.pre) =>
                LET alone == [s \in {ret.session_id} |-> ret.pre[s]]
                IN  dres = demask(alone, ret.masked_text, ret.session_id, NoneValue)

\* C21 witness: a held session was cleared while another session with a non-empty
\* token map was held, and that other session is still there.
SessionIsolationWitness ==
    /\ ret.op = "clear"
    /\ ret.session_id \in DOMAIN ret.pre
    /\ ret.pre[ret.session_id] # <<>>
    /\ \E s \in DOMAIN sessions : sessions[s] # <<>> /\ sessions[s] # ret.pre[ret.session_id]


\* C22: with both stores active, DELETE /session/{id} succeeds, leaves the session
\* in neither store whatever the distributed store answered, and reports
\* nats_deleted = true whenever the session existed in one of the stores.
BestEffortDeletion ==
    (ret.op = "api_clear" /\ cfg.use_nats) =>
        /\ ret.status = 200
        /\ ret.session_id \notin DOMAIN sessions
        /\ SessionKey(ret.session_id) \notin DOMAIN kv
        /\ (ret.in_memory \/ ret.in_nats) => ret.nats_deleted


\* C23: when publishing the audit event of store_session, resolve_tokens or
\* delete_session fails, the operation raises nothing, returns what it returns when
\* the event is published, and leaves the bucket as the operation alone leaves it.
AuditBestEffort ==
    [][(ret'.op \in {"store", "resolve", "delete"} /\ ret'.publish_raises) =>
          /\ ret'.raised = None
          /\ ret'.op = "store" =>
                /\ ret'.value = None
                /\ kv' = store_session(kv, cfg, now, ret'.session_id, ret'.arg).kv
          /\ ret'.op = "resolve" =>
                /\ ret'.value = resolve_tokens(kv, cfg, now, ret'.session_id, ret'.arg).value
                /\ kv' = kv
          /\ ret'.op = "delete" =>
                /\ ret'.value = TRUE
                /\ kv' = delete_session(kv, ret'.session_id, FALSE).kv]_vars

\* C23 witness: tokens of a held session were resolved while the audit event could
\* not be published.
AuditBestEffortWitness ==
    /\ ret.op = "resolve"
    /\ ret.publish_raises
    /\ ret.event.type = "resolve"
    /\ ret.value # <<>>
    /\ SessionKey(ret.session_id) \in DOMAIN kv


(***************************************************************************)
(* _deduplicate_entities alone, over every candidate list of spans of a    *)
(* text of DedupLen characters with three levels of confidence.            *)
(***************************************************************************)
DedupLen == 3
DedupScores == {60, 80, 95}
DedupText == [i \in 1..DedupLen |-> "a"]

DedupCandidates ==
    {[entity_type |-> EMAIL_ADDRESS, start |-> sp[1], end |-> sp[2], score |-> sc,
      text |-> Slice(DedupText, sp[1], sp[2])] :
        sp \in {q \in (0..(DedupLen - 1)) \X (1..DedupLen) : q[1] < q[2]},
        sc \in DedupScores}

InitDedup ==
    /\ text = DedupText
    /\ cands \in UNION {[1..n -> DedupCandidates] : n \in 0..MaxCands}
    /\ pc = "start"
    /\ mres = None
    /\ dres = None
    /\ sessions = NoSessions
    /\ created_at = NoSessions
    /\ kv = NoSessions
    /\ last_store = [s \in SessionIds |-> NeverStored]
    /\ now = 0
    /\ cfg = NoConfig
    /\ ret = [op |-> "init"]
    /\ encrypted = NoneValue
    /\ _store = NoStore
    /\ _fernet_cache = <<>>
    /\ proc = NoProcs

\* deduplicated = self._deduplicate_entities(entities)
Deduplicate ==
    /\ pc = "start"
    /\ ret' = [op |-> "_deduplicate_entities", value |-> _deduplicate_entities(cands)]
    /\ pc' = "deduplicated"
    /\ UNCHANGED <<_store, _fernet_cache, proc>>
    /\ UNCHANGED <<text, cands, mres, dres, sessions, created_at, kv, last_store>>
    /\ UNCHANGED <<_store, _fernet_cache, proc, now, cfg, encrypted>>

NextDedup == Deduplicate

SpecDedup == InitDedup /\ [][NextDedup]_vars

\* the entities of a list as a set
Kept(entities) == {entities[k] : k \in 1..Len(entities)}

\* C24: every candidate that deduplication discards overlaps an entity it keeps.
DedupCoverage ==
    ret.op = "_deduplicate_entities" =>
        \A i \in 1..Len(cands) :
            cands[i] \notin Kept(ret.value) =>
                \E e \in Kept(ret.value) : Overlaps(e, cands[i])

\* C25: of two overlapping candidates of which deduplication keeps exactly one, the
\* kept one has a score at least as high as the discarded one.
DedupPrefersHigherScore ==
    ret.op = "_deduplicate_entities" =>
        \A i, j \in 1..Len(cands) :
            (/\ Overlaps(cands[i], cands[j])
             /\ cands[i] \in Kept(ret.value)
             /\ cands[j] \notin Kept(ret.value)) => cands[i].score >= cands[j].score

\* C26: of candidates that all overlap one another deduplication keeps exactly one:
\* the first, in ascending (start, end) order, of those with the highest score.
DedupAllPairwiseOverlapping ==
    (/\ ret.op = "_deduplicate_entities"
     /\ cands # <<>>
     /\ \A i, j \in 1..Len(cands) : Overlaps(cands[i], cands[j])) =>
        LET highest == {i \in 1..Len(cands) :
                           \A j \in 1..Len(cands) : cands[j].score <= cands[i].score}
            before(i, j) == \/ cands[i].start < cands[j].start
                            \/ cands[i].start = cands[j].start /\ cands[i].end < cands[j].end
                            \/ /\ cands[i].start = cands[j].start
                               /\ cands[i].end = cands[j].end
                               /\ i <= j
            first == CHOOSE i \in highest : \A j \in highest : before(i, j)
        IN  ret.value = <<cands[first]>>

\* C26 witness: three candidates that all overlap one another, two of them with the
\* highest score, and the one kept is neither the first of the input nor the
\* longest.
DedupAllPairwiseOverlappingWitness ==
    /\ ret.op = "_deduplicate_entities"
    /\ Len(cands) = 3
    /\ \A i, j \in 1..3 : Overlaps(cands[i], cands[j])
    /\ cands[1].score = 80
    /\ cands[2].score = 95 /\ cands[2].start = 1
    /\ cands[3].score = 95 /\ cands[3].start = 0 /\ cands[3].end = 2
    /\ ret.value = <<cands[3]>>


\* C27: when entities_to_mask is supplied, mask replaces only entities whose type is
\* in it, and a supplied empty list replaces nothing.
TypeFilterRestrictsReplacement ==
    (pc # "start" /\ ~ret.entities_to_mask.none) =>
        LET wanted == {ret.entities_to_mask.v[k] : k \in 1..Len(ret.entities_to_mask.v)}
        IN  /\ \A k \in 1..Len(mres.entities_found) :
                   mres.entities_found[k].entity_type \in wanted
            /\ wanted = {} => (mres.masked_text = text /\ mres.token_map = <<>>)


\* C28: when the entities mask replaces do not overlap, masked_text is the text
\* read left to right with each entity's span replaced by that entity's token and
\* every other character kept, and token_map maps each entity's token to
\* text[start:end].
BackToFrontSplicing ==
    (pc # "start"
       /\ \A i, j \in 1..Len(mres.entities_found) :
             i # j => ~Overlaps(mres.entities_found[i], mres.entities_found[j])) =>
        LET ef == mres.entities_found
            tm == mres.token_map
            RECURSIVE spliced(_)
            spliced(p) ==
                IF p >= Len(text) THEN <<>>
                ELSE IF \E k \in 1..Len(ef) : ef[k].start = p
                THEN LET k == CHOOSE k \in 1..Len(ef) : ef[k].start = p
                     IN  tm[k].token \o spliced(ef[k].end)
                ELSE <<text[p + 1]>> \o spliced(p + 1)
        IN  /\ Len(tm) = Len(ef)
            /\ \A k \in 1..Len(ef) :
                   tm[k].value = SubSeq(text, ef[k].start + 1, ef[k].end)
            /\ mres.masked_text = spliced(0)

\* C28 witness: two adjacent entities of a two-character text were both replaced,
\* the later one first.
BackToFrontSplicingWitness ==
    /\ pc = "masked"
    /\ Len(text) = 2
    /\ text[1] # text[2]
    /\ Len(mres.entities_found) = 2
    /\ mres.entities_found[1].start = 1 /\ mres.entities_found[1].end = 2
    /\ mres.entities_found[2].start = 0 /\ mres.entities_found[2].end = 1
    /\ mres.masked_text = mres.token_map[2].token \o mres.token_map[1].token


\* C29: for a token map that mask produced, demask gives the same original_text and
\* entities_restored in whatever order the entries of the map are processed.
DemaskOrderIndependent ==
    (ret.op = "demask" /\ ret.token_map.none /\ ret.session_id \in DOMAIN ret.pre) =>
        LET tm == ret.pre[ret.session_id]
            n == Len(tm)
            orders == {f \in [1..n -> 1..n] : \A i, j \in 1..n : f[i] = f[j] => i = j}
        IN  \A f \in orders :
                DemaskLoop([i \in 1..n |-> tm[f[i]]], 1,
                    [original_text |-> ret.masked_text, entities_restored |-> 0]) = dres

\* C30 as stated: when no original value equals another token, demask of demask's
\* output with the same token map returns that output with entities_restored = 0.
DemaskIdempotentUnlessValueIsToken ==
    (ret.op = "demask" /\ "original_text" \in DOMAIN dres) =>
        LET tm == IF ~ret.token_map.none THEN ret.token_map.v
                  ELSE IF ret.session_id \in DOMAIN ret.pre THEN ret.pre[ret.session_id]
                  ELSE <<>>
        IN  (\A k, l \in 1..Len(tm) : k # l => tm[k].value # tm[l].token) =>
                demask(sessions, dres.original_text, ret.session_id, ret.token_map)
                    = [original_text |-> dres.original_text, entities_restored |-> 0]

\* C30 amended: when no original value is empty or shares a character with a token
\* of the map, demask of demask's output with the same token map returns that
\* output with entities_restored = 0.
DemaskIdempotentWhenSeparate ==
    (ret.op = "demask" /\ "original_text" \in DOMAIN dres) =>
        LET tm == IF ~ret.token_map.none THEN ret.token_map.v
                  ELSE IF ret.session_id \in DOMAIN ret.pre THEN ret.pre[ret.session_id]
                  ELSE <<>>
            chars(w) == {w[i] : i \in 1..Len(w)}
        IN  (\A k, l \in 1..Len(tm) :
                 /\ tm[k].value # <<>>
                 /\ chars(tm[k].value) \cap chars(tm[l].token) = {}) =>
                demask(sessions, dres.original_text, ret.session_id, ret.token_map)
                    = [original_text |-> dres.original_text, entities_restored |-> 0]

\* C30 witness: demask by session id restored two tokens of a text, and the
\* session's values share no character with its tokens.
DemaskIdempotentWhenSeparateWitness ==
    /\ ret.op = "demask"
    /\ ret.token_map.none
    /\ ret.session_id \in DOMAIN sessions
    /\ Len(sessions[ret.session_id]) = 2
    /\ sessions[ret.session_id][1].value = <<"a">>
    /\ sessions[ret.session_id][2].value = <<"a">>
    /\ ret.masked_text = T2 \o <<"a">> \o T1
    /\ dres = [original_text |-> <<"a", "a", "a">>, entities_restored |-> 2]


\* C31: with both stores active, POST /demask for a session that was created and is
\* no longer in the distributed store (expired or deleted) restores nothing:
\* original_text = masked_text and entities_restored = 0.
ExpiredBehavesAsDeleted ==
    (/\ ret.op = "api_demask"
     /\ cfg.use_nats
     /\ ret.session_id \in DOMAIN created_at
     /\ SessionKey(ret.session_id) \notin DOMAIN kv) =>
        /\ ret.original_text = ret.arg
        /\ ret.entities_restored = 0


(***************************************************************************)
(* get_nats_store() called by concurrent coroutines: the steps between     *)
(* which the event loop may switch are the awaits inside connect().        *)
(***************************************************************************)
Callers == {"c1", "c2", "c3"}
StoreOps == {"store_session", "get_session", "delete_session"}

InitHandle ==
    /\ text = <<>>
    /\ cands = <<>>
    /\ pc = "serving"
    /\ mres = None
    /\ dres = None
    /\ sessions = NoSessions
    /\ created_at = NoSessions
    /\ kv = NoSessions
    /\ last_store = [s \in SessionIds |-> NeverStored]
    /\ now = 0
    /\ cfg = NoConfig
    /\ ret = [op |-> "init"]
    /\ encrypted = NoneValue
    /\ _store = NoStore
    /\ _fernet_cache = <<>>
    /\ proc = [c \in Callers |-> [at |-> "idle"]]

handleFrame == <<text, cands, pc, mres, dres, sessions, created_at, kv, last_store, now, cfg,
                 encrypted, _fernet_cache>>

\* get_nats_store(): `if _store is None: _store = NATSSessionStore(...)`, then the
\* coroutine waits in connect(); otherwise `return _store` at once
get_nats_store(c) ==
    /\ proc[c].at = "idle"
    /\ IF ~_store.created
       THEN /\ _store' = [created |-> TRUE, _nc |-> FALSE, _kv |-> FALSE]
            /\ proc' = [proc EXCEPT ![c].at = "nats.connect"]
       ELSE /\ proc' = [proc EXCEPT ![c].at = "returned"]
            /\ UNCHANGED _store
    /\ ret' = [op |-> "get_nats_store", caller |-> c, raised |-> None]
    /\ UNCHANGED handleFrame

\* connect(): self._nc = await nats.connect(self.nats_url), which may fail
NatsConnect(c) ==
    /\ proc[c].at = "nats.connect"
    /\ \E ok \in BOOLEAN :
        IF ok
        THEN /\ _store' = [_store EXCEPT !._nc = TRUE]
             /\ proc' = [proc EXCEPT ![c].at = "key_value"]
             /\ ret' = [op |-> "nats.connect", caller |-> c, raised |-> None]
        ELSE /\ proc' = [proc EXCEPT ![c].at = "raised"]
             /\ ret' = [op |-> "nats.connect", caller |-> c, raised |-> "ConnectionError"]
             /\ UNCHANGED _store
    /\ UNCHANGED handleFrame

\* connect(): self._kv = await js.key_value(...) or create_key_value(...), which
\* may fail; on success get_nats_store returns _store
KeyValueBucket(c) ==
    /\ proc[c].at = "key_value"
    /\ \E ok \in BOOLEAN :
        IF ok
        THEN /\ _store' = [_store EXCEPT !._kv = TRUE]
             /\ proc' = [proc EXCEPT ![c].at = "returned"]
             /\ ret' = [op |-> "key_value", caller |-> c, raised |-> None]
        ELSE /\ proc' = [proc EXCEPT ![c].at = "raised"]
             /\ ret' = [op |-> "key_value", caller |-> c, raised |-> "Exception"]
             /\ UNCHANGED _store
    /\ UNCHANGED handleFrame

\* a store operation on the returned handle: `if not self._kv: raise RuntimeError`
UseHandle(c) ==
    /\ proc[c].at = "returned"
    /\ \E op \in StoreOps :
          ret' = [op |-> op, caller |-> c,
                  raised |-> IF _store._kv THEN None ELSE "RuntimeError"]
    /\ proc' = [proc EXCEPT ![c].at = "idle"]
    /\ UNCHANGED <<_store, handleFrame>>

\* the caller whose get_nats_store() raised comes back with another request
CallAgain(c) ==
    /\ proc[c].at = "raised"
    /\ proc' = [proc EXCEPT ![c].at = "idle"]
    /\ ret' = [op |-> "again", caller |-> c, raised |-> None]
    /\ UNCHANGED <<_store, handleFrame>>

\* disconnect(): `if self._nc:` close, self._nc = None, self._kv = None; the module
\* global _store keeps the object
Disconnect ==
    /\ _store._nc
    /\ _store' = [_store EXCEPT !._nc = FALSE, !._kv = FALSE]
    /\ ret' = [op |-> "disconnect", caller |-> None, raised |-> None]
    /\ UNCHANGED <<proc, handleFrame>>

NextHandle ==
    \/ \E c \in Callers : get_nats_store(c)
    \/ \E c \in Callers : NatsConnect(c)
    \/ \E c \in Callers : KeyValueBucket(c)
    \/ \E c \in Callers : UseHandle(c)
    \/ \E c \in Callers : CallAgain(c)
    \/ Disconnect

SpecHandle == InitHandle /\ [][NextHandle]_vars

\* C32: every handle get_nats_store() returned is connected, and no store, get or
\* delete on a returned handle fails with 'NATS not connected'.
SharedHandleConnected ==
    /\ \A c \in Callers : proc[c].at = "returned" => _store._kv
    /\ ret.op \in StoreOps => ret.raised = None


(***************************************************************************)
(* KDFEncryption._fernet_cache of one instance with a current and a        *)
(* previous master key, over CachePeriods rotation periods.                *)
(***************************************************************************)
CacheLimit == 10
CacheKeep == 5
CachePeriods == 4

\* _derive_key: HKDF of the master key with the period in its info string
_derive_key(master_key, period) == [master_key |-> master_key, info_period |-> period]

NoFernet == [master_key |-> None, info_period |-> 0]

\* a _get_fernet that removes the newest entries instead of the oldest
GetFernetEvictsNewest(cache, master_key, period) ==
    LET cache_key == <<master_key, period>>
        hit == \E i \in 1..Len(cache) : cache[i].cache_key = cache_key
        inserted == IF hit THEN cache
                    ELSE Append(cache, [cache_key |-> cache_key,
                                        fernet |-> _derive_key(master_key, period)])
        limited == IF ~hit /\ Len(inserted) > CacheLimit
                   THEN SubSeq(inserted, 1, CacheKeep)
                   ELSE inserted
        found == {i \in 1..Len(limited) : limited[i].cache_key = cache_key}
    IN  [cache |-> limited,
         raised |-> IF found = {} THEN "KeyError" ELSE None,
         fernet |-> IF found = {} THEN NoFernet ELSE limited[CHOOSE i \in found : TRUE].fernet]

\* _get_fernet(master_key, period) on the cache `cache`: the cache afterwards, and
\* the Fernet returned or the KeyError raised by the final lookup
_get_fernet(cache, master_key, period) ==
    LET cache_key == <<master_key, period>>
        hit == \E i \in 1..Len(cache) : cache[i].cache_key = cache_key
        inserted == IF hit THEN cache
                    ELSE Append(cache, [cache_key |-> cache_key,
                                        fernet |-> _derive_key(master_key, period)])
        limited == IF ~hit /\ Len(inserted) > CacheLimit
                   THEN SubSeq(inserted, Len(inserted) - CacheKeep + 1, Len(inserted))
                   ELSE inserted
        found == {i \in 1..Len(limited) : limited[i].cache_key = cache_key}
    IN  [cache |-> limited,
         raised |-> IF found = {} THEN "KeyError" ELSE None,
         fernet |-> IF found = {} THEN NoFernet ELSE limited[CHOOSE i \in found : TRUE].fernet]

CacheConfig == [NoConfig EXCEPT !.master_key = "K1", !.master_key_previous = "K2"]

InitCache ==
    /\ text = <<>>
    /\ cands = <<>>
    /\ pc = 0
    /\ mres = None
    /\ dres = None
    /\ sessions = NoSessions
    /\ created_at = NoSessions
    /\ kv = NoSessions
    /\ last_store = [s \in SessionIds |-> NeverStored]
    /\ now = 0
    /\ cfg = CacheConfig
    /\ ret = [op |-> "init"]
    /\ encrypted = NoneValue
    /\ _store = NoStore
    /\ _fernet_cache = <<>>
    /\ proc = NoProcs

cacheFrame == <<text, cands, mres, dres, sessions, created_at, kv, last_store, cfg,
                encrypted, _store, proc>>

\* decrypt's list `attempts` at time t
Attempts(c, t) ==
    <<<<c.master_key, _get_current_period(c, t)>>,
      <<c.master_key, _get_current_period(c, t) - 1>>,
      <<c.master_key_previous, _get_current_period(c, t)>>,
      <<c.master_key_previous, _get_current_period(c, t) - 1>>>>

\* encrypt: fernet = self._get_fernet(self._master_key, period)
CacheEncrypt ==
    /\ pc = 0
    /\ LET r == _get_fernet(_fernet_cache, cfg.master_key, _get_current_period(cfg, now))
       IN  /\ _fernet_cache' = r.cache
           /\ ret' = [op |-> "_get_fernet", by |-> "encrypt", master_key |-> cfg.master_key,
                      period |-> _get_current_period(cfg, now), pre |-> _fernet_cache,
                      raised |-> r.raised, fernet |-> r.fernet]
    /\ UNCHANGED <<pc, now, cacheFrame>>

\* decrypt: one turn of `for master_key, period in attempts`: _get_fernet, then
\* fernet.decrypt(data) returns (authentic) or raises InvalidToken and the loop
\* goes on; pc is the number of attempts the running decrypt has made
CacheDecrypt ==
    \E authentic \in BOOLEAN :
        LET i == pc + 1
            attempt == Attempts(cfg, now)[i]
            r == _get_fernet(_fernet_cache, attempt[1], attempt[2])
        IN  /\ _fernet_cache' = r.cache
            /\ ret' = [op |-> "_get_fernet", by |-> "decrypt", master_key |-> attempt[1],
                       period |-> attempt[2], pre |-> _fernet_cache,
                       raised |-> r.raised, fernet |-> r.fernet]
            /\ pc' = IF authentic \/ r.raised # None \/ i = Len(Attempts(cfg, now))
                     THEN 0 ELSE i
            /\ UNCHANGED <<now, cacheFrame>>

\* the clock reaches the next rotation period, between two calls
NextPeriod ==
    /\ pc = 0
    /\ _get_current_period(cfg, now) < CachePeriods
    /\ now' = now + cfg.rotation_period
    /\ ret' = [op |-> "period"]
    /\ UNCHANGED <<_fernet_cache, pc, cacheFrame>>

NextCache == CacheEncrypt \/ CacheDecrypt \/ NextPeriod

SpecCache == InitCache /\ [][NextCache]_vars

\* C33: after every _get_fernet the cache holds at most 10 entries, what is left is
\* the newest part of the cache with the requested entry added, the call returns
\* the cipher derived from the requested (master key, period), and that entry is
\* in the cache.
KeyCacheBound ==
    /\ Len(_fernet_cache) <= 10
    /\ ret.op = "_get_fernet" =>
          LET cache_key == <<ret.master_key, ret.period>>
              entry == [cache_key |-> cache_key,
                        fernet |-> _derive_key(ret.master_key, ret.period)]
              miss == \A i \in 1..Len(ret.pre) : ret.pre[i].cache_key # cache_key
              full == IF miss THEN Append(ret.pre, entry) ELSE ret.pre
          IN  /\ \E k \in 1..Len(full) : _fernet_cache = SubSeq(full, k, Len(full))
              /\ ret.raised = None
              /\ ret.fernet = entry.fernet
              /\ \E i \in 1..Len(_fernet_cache) : _fernet_cache[i] = entry

\* C33 witness: a call found ten entries, none of them the requested one, and left
\* the five newest.
KeyCacheBoundWitness ==
    /\ ret.op = "_get_fernet"
    /\ Len(ret.pre) = 10
    /\ Len(_fernet_cache) = 5
    /\ _fernet_cache[5].cache_key = <<ret.master_key, ret.period>>
    /\ _fernet_cache[1] = ret.pre[7]


(***************************************************************************)
(* The same cache used by two threads at once, one in encrypt and one in   *)
(* decrypt: _get_fernet takes no lock, so the threads may switch between   *)
(* its statements.                                                         *)
(***************************************************************************)
Threads == {"encrypt", "decrypt"}

Idle == [at |-> "idle", attempts |-> <<>>, i |-> 0, keys_to_remove |-> <<>>]

InitThreads ==
    /\ text = <<>>
    /\ cands = <<>>
    /\ pc = "threads"
    /\ mres = None
    /\ dres = None
    /\ sessions = NoSessions
    /\ created_at = NoSessions
    /\ kv = NoSessions
    /\ last_store = [s \in SessionIds |-> NeverStored]
    /\ now = 0
    /\ cfg = CacheConfig
    /\ ret = [op |-> "init"]
    /\ encrypted = NoneValue
    /\ _store = NoStore
    /\ _fernet_cache = <<>>
    /\ proc = [t \in Threads |-> Idle]

threadFrame == <<text, cands, pc, mres, dres, sessions, created_at, kv, last_store, cfg,
                 encrypted, _store>>

CacheKeys(cache) == [i \in 1..Len(cache) |-> cache[i].cache_key]
InCache(cache, cache_key) == \E i \in 1..Len(cache) : cache[i].cache_key = cache_key

\* encrypt() and decrypt() read the clock and enter _get_fernet for their first pair
ThreadCall(t) ==
    /\ proc[t].at = "idle"
    /\ proc' = [proc EXCEPT ![t] =
                  [at |-> "check", i |-> 1, keys_to_remove |-> <<>>,
                   attempts |-> IF t = "encrypt" THEN <<Attempts(cfg, now)[1]>>
                                ELSE Attempts(cfg, now)]]
    /\ ret' = [op |-> "call", thread |-> t]
    /\ UNCHANGED <<_fernet_cache, now, threadFrame>>

\* `if cache_key not in self._fernet_cache:`
ThreadCheck(t) ==
    /\ proc[t].at = "check"
    /\ proc' = [proc EXCEPT ![t].at =
                  IF InCache(_fernet_cache, proc[t].attempts[proc[t].i])
                  THEN "return" ELSE "insert"]
    /\ ret' = [op |-> "check", thread |-> t]
    /\ UNCHANGED <<_fernet_cache, now, threadFrame>>

\* `self._fernet_cache[cache_key] = Fernet(derived_key)`: a key the other thread
\* inserted meanwhile keeps its place
ThreadInsert(t) ==
    /\ proc[t].at = "insert"
    /\ LET cache_key == proc[t].attempts[proc[t].i]
       IN  _fernet_cache' =
              IF InCache(_fernet_cache, cache_key) THEN _fernet_cache
              ELSE Append(_fernet_cache,
                          [cache_key |-> cache_key,
                           fernet |-> _derive_key(cache_key[1], cache_key[2])])
    /\ proc' = [proc EXCEPT ![t].at = "len"]
    /\ ret' = [op |-> "insert", thread |-> t]
    /\ UNCHANGED <<now, threadFrame>>

\* `if len(self._fernet_cache) > 10: keys_to_remove = list(keys())[:-5]`
ThreadLen(t) ==
    /\ proc[t].at = "len"
    /\ proc' = IF Len(_fernet_cache) > CacheLimit
               THEN [proc EXCEPT ![t].at = "del",
                                 ![t].keys_to_remove =
                                     SubSeq(CacheKeys(_fernet_cache), 1,
                                            Len(_fernet_cache) - CacheKeep)]
               ELSE [proc EXCEPT ![t].at = "return"]
    /\ ret' = [op |-> "len", thread |-> t]
    /\ UNCHANGED <<_fernet_cache, now, threadFrame>>

\* `for k in keys_to_remove: del self._fernet_cache[k]`: del raises KeyError for a
\* key that is no longer there
ThreadDel(t) ==
    /\ proc[t].at = "del"
    /\ LET gone == {k \in 1..Len(proc[t].keys_to_remove) :
                       ~InCache(_fernet_cache, proc[t].keys_to_remove[k])}
           removed == {proc[t].keys_to_remove[k] : k \in 1..Len(proc[t].keys_to_remove)}
       IN  IF gone = {}
           THEN /\ _fernet_cache' = SelectSeq(_fernet_cache,
                                        LAMBDA e : e.cache_key \notin removed)
                /\ proc' = [proc EXCEPT ![t].at = "return"]
                /\ ret' = [op |-> "del", thread |-> t]
           ELSE /\ UNCHANGED _fernet_cache
                /\ proc' = [proc EXCEPT ![t] = Idle]
                /\ ret' = [op |-> "_get_fernet", thread |-> t, raised |-> "KeyError",
                           cache_key |-> proc[t].attempts[proc[t].i], fernet |-> NoFernet]
    /\ UNCHANGED <<now, threadFrame>>

\* `return self._fernet_cache[cache_key]`; in decrypt the token then authenticates
\* or the loop takes the next pair
ThreadReturn(t) ==
    /\ proc[t].at = "return"
    /\ LET cache_key == proc[t].attempts[proc[t].i]
           found == {i \in 1..Len(_fernet_cache) : _fernet_cache[i].cache_key = cache_key}
       IN  /\ ret' = [op |-> "_get_fernet", thread |-> t, cache_key |-> cache_key,
                      raised |-> IF found = {} THEN "KeyError" ELSE None,
                      fernet |-> IF found = {} THEN NoFernet
                                 ELSE _fernet_cache[CHOOSE i \in found : TRUE].fernet]
           /\ \E authentic \in BOOLEAN :
                 proc' = IF authentic \/ found = {} \/ proc[t].i = Len(proc[t].attempts)
                         THEN [proc EXCEPT ![t] = Idle]
                         ELSE [proc EXCEPT ![t].at = "check", ![t].i = @ + 1]
    /\ UNCHANGED <<_fernet_cache, now, threadFrame>>

\* the clock reaches the next rotation period while no call is running
ThreadsNextPeriod ==
    /\ \A t \in Threads : proc[t].at = "idle"
    /\ _get_current_period(cfg, now) < CachePeriods
    /\ now' = now + cfg.rotation_period
    /\ ret' = [op |-> "period"]
    /\ UNCHANGED <<_fernet_cache, proc, threadFrame>>

NextThreads ==
    \/ \E t \in Threads : ThreadCall(t)
    \/ \E t \in Threads : ThreadCheck(t)
    \/ \E t \in Threads : ThreadInsert(t)
    \/ \E t \in Threads : ThreadLen(t)
    \/ \E t \in Threads : ThreadDel(t)
    \/ \E t \in Threads : ThreadReturn(t)
    \/ ThreadsNextPeriod

SpecThreads == InitThreads /\ [][NextThreads]_vars

\* C34: when encrypt and decrypt interleave on one instance, every _get_fernet
\* returns the cipher of the pair it was asked for, none fails, and the cache
\* holds at most 10 entries whenever no call is running.
KeyCacheSafeUnderConcurrency ==
    /\ ret.op = "_get_fernet" =>
          /\ ret.raised = None
          /\ ret.fernet = _derive_key(ret.cache_key[1], ret.cache_key[2])
    /\ (\A t \in Threads : proc[t].at = "idle") => Len(_fernet_cache) <= CacheLimit


(***************************************************************************)
(* One store_session, one delete_session and two extend_session calls on   *)
(* the same session, run as concurrent coroutines: extend_session awaits   *)
(* get_session and then store_session, the event loop may switch between.  *)
(***************************************************************************)
Procs == {"store", "delete", "extend1", "extend2"}
Shared == "s1"
\* the token maps the callers pass
StoreArgs == {<<Entry(T1, <<"a">>)>>, <<Entry(T1, <<" ">>), Entry(T2, <<"a">>)>>}
ProcArg(p) ==
    IF p = "extend1" THEN <<Entry(T2, <<" ">>)>>
    ELSE IF p = "extend2" THEN <<Entry(_generate_token(OTHER_TYPE, 1), <<"a">>)>>
    ELSE <<>>

Ready(arg) == [at |-> "ready", arg |-> arg, existing |-> NoneValue, value |-> None]

InitExtend ==
    /\ text = <<>>
    /\ cands = <<>>
    /\ pc = "coroutines"
    /\ mres = None
    /\ dres = None
    /\ sessions = NoSessions
    /\ created_at = NoSessions
    /\ kv = NoSessions
    /\ last_store = [s \in SessionIds |-> NeverStored]
    /\ now = 0
    /\ cfg = NoConfig
    /\ ret = [op |-> "init"]
    /\ encrypted = NoneValue
    /\ _store = NoStore
    /\ _fernet_cache = <<>>
    /\ \E token_map \in StoreArgs :
          proc = [p \in Procs |-> Ready(IF p = "store" THEN token_map ELSE ProcArg(p))]

extendFrame == <<text, cands, pc, mres, dres, sessions, created_at, last_store, now, cfg,
                 encrypted, _store, _fernet_cache>>

\* await store.store_session(session_id, token_map)
ProcStore ==
    /\ proc["store"].at = "ready"
    /\ kv' = store_session(kv, cfg, now, Shared, proc["store"].arg).kv
    /\ proc' = [proc EXCEPT !["store"].at = "done", !["store"].value = "None"]
    /\ ret' = [op |-> "store", by |-> "store"]
    /\ UNCHANGED extendFrame

\* await store.delete_session(session_id)
ProcDelete ==
    /\ proc["delete"].at = "ready"
    /\ \E raises \in (IF SessionKey(Shared) \in DOMAIN kv THEN {FALSE} ELSE {FALSE, TRUE}) :
          /\ kv' = delete_session(kv, Shared, raises).kv
          /\ proc' = [proc EXCEPT !["delete"].at = "done",
                                   !["delete"].value =
                                       IF delete_session(kv, Shared, raises).value
                                       THEN "True" ELSE "False"]
    /\ ret' = [op |-> "delete", by |-> "delete"]
    /\ UNCHANGED extendFrame

\* extend_session: existing = await self.get_session(session_id);
\* `if existing is None: return False`
ProcExtendRead(p) ==
    /\ p \in {"extend1", "extend2"}
    /\ proc[p].at = "ready"
    /\ LET existing == get_session(kv, cfg, now, Shared)
       IN  proc' = IF existing.none
                   THEN [proc EXCEPT ![p].at = "done", ![p].value = "False"]
                   ELSE [proc EXCEPT ![p].at = "merge", ![p].existing = existing]
    /\ ret' = [op |-> "get", by |-> p]
    /\ UNCHANGED <<kv, extendFrame>>

\* extend_session: merged = {**existing, **additional_tokens};
\* await self.store_session(session_id, merged); return True
ProcExtendWrite(p) ==
    /\ p \in {"extend1", "extend2"}
    /\ proc[p].at = "merge"
    /\ kv' = store_session(kv, cfg, now, Shared,
                           DictUpdate(proc[p].existing.v, proc[p].arg, 1)).kv
    /\ proc' = [proc EXCEPT ![p].at = "done", ![p].value = "True"]
    /\ ret' = [op |-> "store", by |-> p]
    /\ UNCHANGED extendFrame

NextExtend ==
    \/ ProcStore
    \/ ProcDelete
    \/ \E p \in Procs : ProcExtendRead(p)
    \/ \E p \in Procs : ProcExtendWrite(p)

SpecExtend == InitExtend /\ [][NextExtend]_vars

\* the four operations run one after another in the order `order`, each as a whole
RECURSIVE SerialRun(_, _, _)
SerialRun(order, i, st) ==
    IF i > Len(order) THEN st
    ELSE LET p == order[i]
         IN  IF p = "store"
             THEN SerialRun(order, i + 1,
                      [st EXCEPT !.kv = store_session(st.kv, cfg, now, Shared,
                                                      proc[p].arg).kv])
             ELSE IF p = "delete"
             THEN SerialRun(order, i + 1,
                      [st EXCEPT !.kv = delete_session(st.kv, Shared, FALSE).kv])
             ELSE LET r == extend_session(st.kv, cfg, now, Shared, proc[p].arg)
                  IN  SerialRun(order, i + 1,
                          [st EXCEPT !.kv = r.kv,
                                     ![p] = IF r.value THEN "True" ELSE "False"])

\* C35: once the store, the delete and the two extends have all returned, the
\* stored session and the values the extends returned are those of the four
\* operations run one after another in some order.
ExtendAtomic ==
    (\A p \in Procs : proc[p].at = "done") =>
        \E order \in {f \in [1..4 -> Procs] : \A i, j \in 1..4 : f[i] = f[j] => i = j} :
            LET st == SerialRun(order, 1, [kv |-> NoSessions, extend1 |-> "False",
                                           extend2 |-> "False"])
            IN  /\ get_session(st.kv, cfg, now, Shared) = get_session(kv, cfg, now, Shared)
                /\ st.extend1 = proc["extend1"].value
                /\ st.extend2 = proc["extend2"].value


\* C36: with the TTL no longer than the rotation period and the master secret
\* unchanged, every session record the bucket still holds decrypts, and get_session
\* returns the stored map, whichever period it was stored in.
SessionDecryptsWithinTtl ==
    (is_enabled(cfg) /\ cfg.ttl_seconds <= cfg.rotation_period) =>
        \A session_id \in SessionIds :
            SessionKey(session_id) \in DOMAIN kv =>
                /\ decrypt(cfg, now, kv[SessionKey(session_id)].value).ok
                /\ get_session(kv, cfg, now, session_id) = Some(last_store[session_id].v)
                /\ (ret.op = "get" /\ ret.session_id = session_id) =>
                       ret.value = Some(last_store[session_id].v)

\* C36 witness: a non-empty session stored in one rotation period was read, within
\* its TTL, in the next one.
SessionDecryptsWithinTtlWitness ==
    /\ ret.op = "get"
    /\ is_enabled(cfg)
    /\ SessionKey(ret.session_id) \in DOMAIN kv
    /\ kv[SessionKey(ret.session_id)].value.period = _get_current_period(cfg, now) - 1
    /\ now - kv[SessionKey(ret.session_id)].ts < cfg.ttl_seconds
    /\ ~ret.value.none
    /\ ret.value.v # <<>>


(***************************************************************************)
(* The store with a TTL longer than the rotation period: records outlive   *)
(* the two periods decrypt tries, while the service may come back with     *)
(* another key configuration.                                              *)
(***************************************************************************)
WindowRotation == 1   \* rotation period in ticks
WindowTtl == 3        \* TTL in ticks, longer than the rotation period

InitWindow ==
    /\ text = <<>>
    /\ cands = <<>>
    /\ pc = "idle"
    /\ mres = None
    /\ dres = None
    /\ sessions = NoSessions
    /\ created_at = NoSessions
    /\ kv = NoSessions
    /\ last_store = [s \in SessionIds |-> NeverStored]
    /\ now = 0
    /\ cfg = [NoConfig EXCEPT !.use_nats = TRUE, !.master_key = "K1",
                              !.ttl_seconds = WindowTtl,
                              !.rotation_period = WindowRotation]
    /\ ret = [op |-> "init"]
    /\ encrypted = NoneValue
    /\ _store = NoStore
    /\ _fernet_cache = <<>>
    /\ proc = NoProcs

NextWindow ==
    \/ StoreSession
    \/ GetSession
    \/ Restart
    \/ Tick

SpecWindow == InitWindow /\ [][NextWindow]_vars

\* C37: a record encrypted in period N under secret M decrypts exactly while the
\* current period is N or N+1 and M is the current or the configured previous
\* secret; from period N+2 on get_session finds nothing readable, also for a
\* record the bucket still holds.
DecryptableWindow ==
    is_enabled(cfg) =>
        \A session_id \in SessionIds :
            (SessionKey(session_id) \in DOMAIN kv
               /\ kv[SessionKey(session_id)].value.fmt = "fernet") =>
                LET record == kv[SessionKey(session_id)]
                    N == record.ts \div cfg.rotation_period
                    M == record.value.master_key
                    current == now \div cfg.rotation_period
                    decryptable ==
                        /\ current \in {N, N + 1}
                        /\ \/ M = cfg.master_key
                           \/ (Truthy(cfg.master_key_previous)
                                 /\ M = cfg.master_key_previous)
                IN  /\ decrypt(cfg, now, record.value).ok <=> decryptable
                    /\ current >= N + 2 => get_session(kv, cfg, now, session_id).none
                    /\ (ret.op = "get" /\ ret.session_id = session_id) =>
                           (ret.value.none <=> ~decryptable)

\* C37 witness: with the secret unchanged, a record stored in period N and still
\* held by the bucket was read in period N+2, and the read found nothing.
DecryptableWindowWitness ==
    /\ ret.op = "get"
    /\ is_enabled(cfg)
    /\ SessionKey(ret.session_id) \in DOMAIN kv
    /\ kv[SessionKey(ret.session_id)].value.fmt = "fernet"
    /\ kv[SessionKey(ret.session_id)].value.master_key = cfg.master_key
    /\ now - kv[SessionKey(ret.session_id)].ts < cfg.ttl_seconds
    /\ now \div cfg.rotation_period = (kv[SessionKey(ret.session_id)].ts \div cfg.rotation_period) + 2
    /\ ret.value.none


(***************************************************************************)
(* Encryption against no encryption: the bucket an unencrypted store would *)
(* hold after the same calls, and the results it would return.             *)
(***************************************************************************)
\* the configuration of the same store without a master key
PlainConfig(c) == [c EXCEPT !.master_key = None, !.master_key_previous = None]

\* the bucket with every value replaced by what decrypt returns for it
PlainBucket(kvs, c, t) ==
    [k \in DOMAIN kvs |->
        [value |-> IF is_enabled(c) THEN decrypt(c, t, kvs[k].value).data
                   ELSE kvs[k].value,
         ts |-> kvs[k].ts]]

\* C38: with encryption enabled, every store, get, resolve, extend and delete call,
\* and every expiry, returns what the same call returns on a store without
\* encryption that has seen the same calls, and leaves the bucket that store is
\* left with, encrypted.
EncryptionTransparent ==
    [][is_enabled(cfg) =>
        LET plain == PlainBucket(kv, cfg, now)
            after == PlainBucket(kv', cfg', now')
            c == PlainConfig(cfg)
        IN  /\ ret'.op = "store" =>
                  after = store_session(plain, c, now, ret'.session_id, ret'.arg).kv
            /\ ret'.op = "get" =>
                  /\ ret'.value = get_session(plain, c, now, ret'.session_id)
                  /\ after = plain
            /\ ret'.op = "resolve" =>
                  /\ ret'.value =
                        resolve_tokens(plain, c, now, ret'.session_id, ret'.arg).value
                  /\ after = plain
            /\ ret'.op = "extend" =>
                  LET r == extend_session(plain, c, now, ret'.session_id, ret'.arg)
                  IN  ret'.value = r.value /\ after = r.kv
            /\ ret'.op = "delete" =>
                  /\ \E raises \in (IF SessionKey(ret'.session_id) \in DOMAIN plain
                                    THEN {FALSE} ELSE BOOLEAN) :
                        ret'.value = delete_session(plain, ret'.session_id, raises).value
                  /\ after = delete_session(plain, ret'.session_id, FALSE).kv
            /\ ret'.op = "tick" => after = KvExpire(plain, c.ttl_seconds, now')]_vars

\* C38 witness: on the encrypted store, a session stored in the period before
\* was extended and then resolved to original values.
EncryptionTransparentWitness ==
    /\ ret.op = "resolve"
    /\ is_enabled(cfg)
    /\ ret.value # <<>>
    /\ Len(last_store[ret.session_id].v) >= 2
    /\ SessionKey(ret.session_id) \in DOMAIN kv
    /\ kv[SessionKey(ret.session_id)].value.fmt = "fernet"
    /\ kv[SessionKey(ret.session_id)].value.period = _get_current_period(cfg, now) - 1
    /\ \E i \in 1..Len(ret.value) : ret.value[i].value # ret.value[i].token


(***************************************************************************)
(* Audit events against the original values: the same store with every     *)
(* original value, in the bucket and in the arguments, replaced by the     *)
(* empty string.                                                           *)
(***************************************************************************)
EraseValues(token_map) ==
    [i \in 1..Len(token_map) |-> [token |-> token_map[i].token, value |-> <<>>]]

ErasedBucket(kvs) ==
    [k \in DOMAIN kvs |->
        [value |-> IF kvs[k].value.fmt = "fernet"
                   THEN [kvs[k].value EXCEPT
                            !.body = JsonDumps(EraseValues(JsonLoads(kvs[k].value.body)))]
                   ELSE JsonDumps(EraseValues(JsonLoads(kvs[k].value))),
         ts |-> kvs[k].ts]]

\* the events delete_session can hand to _publish_event for a session id
DeleteEvents(kvs, session_id) ==
    {delete_session(kvs, session_id, raises).event :
        raises \in (IF SessionKey(session_id) \in DOMAIN kvs THEN {FALSE} ELSE BOOLEAN)}

\* C39: the audit event of every store, resolve, extend and delete call is the
\* event the same call emits when every original value in the bucket and in the
\* call's token map is replaced by the empty string, and what is published is
\* that event or nothing.
AuditEventsValueFree ==
    [][LET erased == ErasedBucket(kv)
       IN  /\ ret'.op = "store" =>
                 ret'.event = store_session(erased, cfg, now, ret'.session_id,
                                            EraseValues(ret'.arg)).event
           /\ ret'.op = "resolve" =>
                 ret'.event = resolve_tokens(erased, cfg, now, ret'.session_id,
                                             ret'.arg).event
           /\ ret'.op = "extend" =>
                 ret'.event = extend_session(erased, cfg, now, ret'.session_id,
                                             EraseValues(ret'.arg)).event
           /\ ret'.op = "delete" =>
                 /\ ret'.event \in DeleteEvents(erased, ret'.session_id)
                 /\ DeleteEvents(erased, ret'.session_id)
                       = DeleteEvents(kv, ret'.session_id)
           /\ ret'.op \in {"store", "resolve", "extend", "delete"} =>
                 _publish_event(ret'.event, ret'.publish_raises).published
                     \in {NoneValue, Some(ret'.event)}]_vars

\* C39 witness: a resolve event was emitted for a session that holds two
\* different non-empty original values, one of which the call returned.
AuditEventsValueFreeWitness ==
    /\ ret.op = "resolve"
    /\ ret.event.type = "resolve"
    /\ ret.event.tokens_resolved >= 1
    /\ ~ret.publish_raises
    /\ Len(last_store[ret.session_id].v) = 2
    /\ last_store[ret.session_id].v[1].value # last_store[ret.session_id].v[2].value
    /\ \A i \in 1..2 : last_store[ret.session_id].v[i].value # <<>>


(***************************************************************************)
(* GLiNERPresidioEngine.analyze with its two detectors apart: the GLiNER   *)
(* model, which may raise, and the regex registry.                         *)
(***************************************************************************)
\* what the regex registry can report about t: every match scores 0.95
RegexCandidates(t) == {c \in Candidates(t) : c.score = 95}

\* the outcomes of gliner_model.predict_entities(text, ...): it raises, or it
\* returns entities above the threshold
GlinerOutcomes(t) ==
    {[raises |-> TRUE, entities |-> <<>>]}
    \cup {[raises |-> FALSE, entities |-> es] :
             es \in UNION {[1..n -> Candidates(t)] : n \in 0..1}}

\* not text or not text.strip()
IsBlank(t) == t = <<>> \/ (\A i \in 1..Len(t) : t[i] = " ")

\* an analyze whose try block encloses the regex detection as well
AnalyzeRegexInsideTry(t, gliner, regex_entities) ==
    IF IsBlank(t)
    THEN [value |-> <<>>, raised |-> None, gliner_invoked |-> FALSE,
          regex_invoked |-> FALSE]
    ELSE [value |-> IF gliner.raises THEN <<>>
                    ELSE analyze(t, gliner.entities \o regex_entities),
          raised |-> None, gliner_invoked |-> TRUE, regex_invoked |-> ~gliner.raises]

\* analyze(text) for one outcome of the GLiNER model and the matches the regex
\* registry finds: the returned list, the exception let out, and which
\* detectors were invoked
AnalyzeCall(t, gliner, regex_entities) ==
    IF IsBlank(t)
    THEN [value |-> analyze(t, <<>>), raised |-> None, gliner_invoked |-> FALSE,
          regex_invoked |-> FALSE]
    ELSE LET presidio_entities == IF gliner.raises THEN <<>> ELSE gliner.entities
         IN  [value |-> analyze(t, presidio_entities \o regex_entities),
              raised |-> None, gliner_invoked |-> TRUE, regex_invoked |-> TRUE]

InitAnalyze ==
    /\ text \in Texts
    /\ cands \in UNION {[1..n -> RegexCandidates(text)] : n \in 0..MaxCands}
    /\ pc = "start"
    /\ mres = None
    /\ dres = None
    /\ sessions = NoSessions
    /\ created_at = NoSessions
    /\ kv = NoSessions
    /\ last_store = [s \in SessionIds |-> NeverStored]
    /\ now = 0
    /\ cfg = NoConfig
    /\ ret = [op |-> "init"]
    /\ encrypted = NoneValue
    /\ _store = NoStore
    /\ _fernet_cache = <<>>
    /\ proc = NoProcs

\* entities = engine.analyze(text)
Analyze ==
    /\ pc = "start"
    /\ \E gliner \in GlinerOutcomes(text) :
        LET r == AnalyzeCall(text, gliner, cands)
        IN  ret' = [op |-> "analyze", gliner |-> gliner, value |-> r.value,
                    raised |-> r.raised, gliner_invoked |-> r.gliner_invoked,
                    regex_invoked |-> r.regex_invoked]
    /\ pc' = "done"
    /\ UNCHANGED <<_store, _fernet_cache, proc>>
    /\ UNCHANGED <<text, cands, mres, dres, sessions, created_at, kv, last_store>>
    /\ UNCHANGED <<now, cfg, encrypted>>

NextAnalyze == Analyze

SpecAnalyze == InitAnalyze /\ [][NextAnalyze]_vars

\* C40: analyze never raises; on empty or whitespace-only text it returns the empty
\* list and invokes no detector; otherwise it invokes both detectors, and returns
\* the deduplicated regex matches when the GLiNER model raised, the deduplicated
\* GLiNER entities and regex matches when it did not.
DetectorFailureNonFatal ==
    ret.op = "analyze" =>
        /\ ret.raised = None
        /\ IsBlank(text) =>
              ret.value = <<>> /\ ~ret.gliner_invoked /\ ~ret.regex_invoked
        /\ ~IsBlank(text) =>
              /\ ret.gliner_invoked /\ ret.regex_invoked
              /\ ret.gliner.raises => ret.value = _deduplicate_entities(cands)
              /\ ~ret.gliner.raises =>
                    ret.value = _deduplicate_entities(ret.gliner.entities \o cands)

\* C40 witness: the GLiNER model raised on a text with overlapping regex matches,
\* and analyze returned fewer entities than the registry matched, but not none.
DetectorFailureNonFatalWitness ==
    /\ ret.op = "analyze"
    /\ ret.gliner.raises
    /\ ret.raised = None
    /\ ret.value # <<>>
    /\ Len(ret.value) < Len(cands)

=============================================================================
